---- MODULE Spec2Model ----
(***************************************************************************)
(* Mailboat mail transfer agent: the two EmailQueue implementations, the   *)
(* recipient extraction of TransferAgent.handle_message and the delivery   *)
(* worker (_cothread_deliveryman), in the version of the package           *)
(* src/mailboat/mta/__init__.py and in the version of the module           *)
(* src/mailboat/mta.py; the scopes and tokens of usrsys/tk.py, the         *)
(* authentication of usrsys/auth.py and imap/__init__.py, the             *)
(* reference-counted MailStore of mailstore.py with MailBox.append, the    *)
(* record store of utils/storage.py with the streaming of its find, the   *)
(* SMTP AUTH mechanisms of mta/smtp.py, the perf points of utils/perf.py,  *)
(* remote_deliver and store_mail calls that run together.                  *)
(***************************************************************************)
EXTENDS Integers, Sequences, FiniteSets, TLC

VARIABLES
    qkind,        \* which EmailQueue the agent / the client uses
    mq,           \* MemoryEmailQueue: container, next_read_id, next_set_id, lock_getting
    uq,           \* UnQLiteEmailMessageQueue: the collection, its id counter, _ids
    cons,         \* queue clients: position of each consumer inside get()
    got,          \* history: (consumer, message, id) returned by get, this queue object
    putOrder,     \* history: (id, message) in the order in which put returned
    removedOnce,  \* history: ids on which remove was called
    removedTwice, \* history: ids on which remove was called a second time
    rmRaised,     \* history: ids whose remove raised
    getRaised,    \* history: number of get calls that raised
    epochRemoved, \* history: ids removed before the current queue object was built
    restarts,     \* number of times a queue object was rebuilt on the collection
    calls,        \* handle_message calls: message, internal, pending puts, state
    putTasks,     \* the put tasks handle_message created, in creation order
    worker,       \* the delivery worker: pc, and its local variable index
    tasks,        \* delivery tasks started by the worker, by queue id
    cbTasks,      \* done-callbacks scheduled by finished tasks (mta.py)
    removeTasks,  \* queue.remove tasks created by the done-callbacks (mta.py)
    rmlog,        \* history: remove invocations of the worker's callbacks
    raised,       \* history: exceptions raised inside the worker loop
    logged,       \* history: worker exceptions that reached the log
    destroyed,    \* destory() was called
    probe,        \* a call of a function of usrsys/tk.py: its arguments and result
    now,          \* datetime.utcnow().timestamp(), in seconds
    userRecords,  \* the "users" collection
    tokenRecords, \* the "tokens" collection
    authlog,      \* history: authentication calls and what they ended in
    mails,        \* the "mails" collection of MailStore
    maillog,      \* history: store_mail / deref_mail_by_id calls per message id
    rows,         \* the MailRecord rows of the mailboxes
    storage,      \* an UnQLiteStorage collection: its documents and its id counter
    storecall,    \* the last call on the collection: arguments, store before, result
    smtp,         \* an SMTP session inside an AUTH command
    perf,         \* one perf point: its PERF_DATA list and the calls in flight
    remote,       \* one remote_deliver call: its message and its send attempts
    storing,      \* store_mail calls between their find_one and their write
    stream        \* one UnQLiteStorage.find: producer thread, channel, consumer

qvars == <<qkind, mq, uq>>
hvars == <<cons, got, putOrder, removedOnce, removedTwice, rmRaised, getRaised,
           epochRemoved, restarts>>
avars == <<calls, putTasks, worker, tasks, cbTasks, removeTasks, rmlog, raised,
           logged, destroyed>>
uvars == <<probe, now, userRecords, tokenRecords, authlog, mails, maillog>>
xvars == <<rows, storage, storecall, smtp, perf>>
yvars == <<remote, storing, stream>>
vars == <<qvars, hvars, avars, uvars, xvars, yvars>>

----------------------------------------------------------------------------
(* Bounds of the model. *)

MaxPuts == 3
MaxRestarts == 1
NConsumers == 2
MaxCalls == 2
MaxEnvelopes == 2
MaxScopeSet == 2
MaxRows == 2
MaxDocs == 2
MaxIds == 3
MaxUsers == 2
MaxPerfCalls == 203
MaxInFlight == 2
MaxClock == 3
MaxStores == 3
MaxStoring == 2
MaxMatches == 2

----------------------------------------------------------------------------
(* Messages.  An EmailMessage is a map from header names to values; a      *)
(* header that is absent has the value <<>>.  An address is <<local,       *)
(* host>>; To, Cc and Bcc hold address lists.  X-Peer is a string, kept as *)
(* a sequence of pieces so that str.startswith is a prefix test.           *)

Headers == {"Message-Id", "From", "To", "Cc", "Bcc", "X-Peer", "Delivered-To"}
HeaderOrder == <<"Message-Id", "From", "To", "Cc", "Bcc", "X-Peer", "Delivered-To">>

NoHeaders == [h \in Headers |-> <<>>]

Has(m, h) == m[h] # <<>>

NumHeaders(m) == Cardinality({h \in Headers : Has(m, h)})

\* bool(message): EmailMessage defines __len__ as the number of headers.
Truthy(m) == NumHeaders(m) > 0

mydomains == {"foo.bar"}

UserA == <<"a", "foo.bar">>
UserB == <<"b", "foo.bar">>
External == <<"external", "example.org">>
Unparsable == <<"not an address">>

\* flanker address.parse: the address, or None for text that is no address.
ParsesAsAddress(v) == Len(v) = 2

Hostname(addr) == addr[2]

RECURSIVE LinesFrom(_, _)
LinesFrom(m, i) ==
    IF i > Len(HeaderOrder) THEN <<>>
    ELSE IF Has(m, HeaderOrder[i])
         THEN <<<<HeaderOrder[i], m[HeaderOrder[i]]>>>> \o LinesFrom(m, i + 1)
         ELSE LinesFrom(m, i + 1)

\* EmailMessage.as_string: one line per header that is present.
AsString(m) == LinesFrom(m, 1)

FirstLine(lines, h) ==
    LET idx == {i \in 1..Len(lines) : lines[i][1] = h}
    IN IF idx = {} THEN <<>>
       ELSE lines[CHOOSE i \in idx : \A j \in idx : i <= j][2]

\* Parser.parsestr: message[h] is the value of the first line named h.
ParseStr(lines) == [h \in Headers |-> FirstLine(lines, h)]

----------------------------------------------------------------------------
(* Maps from ids to entries (a dict, an UnQLite collection).               *)

EmptyMap == [i \in {} |-> NoHeaders]

StoreAt(f, id, v) == [i \in DOMAIN f \cup {id} |-> IF i = id THEN v ELSE f[i]]

DropAt(f, id) == [i \in DOMAIN f \ {id} |-> f[i]]

RECURSIVE SortedIds(_)
SortedIds(S) ==
    IF S = {} THEN <<>>
    ELSE LET lo == CHOOSE i \in S : \A j \in S : i <= j
         IN <<lo>> \o SortedIds(S \ {lo})

----------------------------------------------------------------------------
(* MemoryEmailQueue *)

NoOwner == 0

MemInit ==
    [container |-> EmptyMap, next_read_id |-> 0, next_set_id |-> 0,
     lock_getting |-> NoOwner]

MemPut(q, m) ==
    [q EXCEPT !.container = StoreAt(@, q.next_set_id, m),
              !.next_set_id = @ + 1]

\* remove: "assert id in self.container"
MemRemoveRaises(q, id) == id \notin DOMAIN q.container

MemRemove(q, id) == [q EXCEPT !.container = DropAt(@, id)]

MemHasUnread(q) == q.next_read_id < q.next_set_id

\* get: "if result:" for result = self.container.get(self.next_read_id)
MemResultTruthy(q) ==
    /\ q.next_read_id \in DOMAIN q.container
    /\ Truthy(q.container[q.next_read_id])

MemAdvanceLost(q) == q

\* get: "self.next_read_id += 1"
MemAdvance(q) == [q EXCEPT !.next_read_id = @ + 1]

----------------------------------------------------------------------------
(* UnQLiteEmailMessageQueue *)

UnqNewEmpty(coll, last_id) == [coll |-> coll, last_id |-> last_id, ids |-> <<>>]

\* __init__: "for doc in self._coll: self._ids.append(doc['__id'])"
UnqNew(coll, last_id) ==
    [coll |-> coll, last_id |-> last_id, ids |-> SortedIds(DOMAIN coll)]

UnqInit == UnqNew(EmptyMap, 0)

UnqPut(q, m) ==
    [q EXCEPT !.coll = StoreAt(@, q.last_id, AsString(m)),
              !.last_id = @ + 1,
              !.ids = Append(@, q.last_id)]

UnqRemove(q, id) == [q EXCEPT !.coll = DropAt(@, id)]

UnqHasUnread(q) == Len(q.ids) > 0

UnqPopLast(q) == [q EXCEPT !.ids = SubSeq(@, 1, Len(@) - 1)]

\* get: "self._ids.pop(0)"
UnqPop(q) == [q EXCEPT !.ids = Tail(@)]

\* get: fetch returns None for a deleted document, and None["__id"] raises.
UnqGetRaises(q) == Head(q.ids) \notin DOMAIN q.coll

UnqGetMessage(q) == ParseStr(q.coll[Head(q.ids)])

----------------------------------------------------------------------------
(* The queue in use. *)

NextId == IF qkind = "memory" THEN mq.next_set_id ELSE uq.last_id

QueuePut(m) ==
    IF qkind = "memory"
    THEN mq' = MemPut(mq, m) /\ UNCHANGED uq
    ELSE uq' = UnqPut(uq, m) /\ UNCHANGED mq

Stored == IF qkind = "memory" THEN DOMAIN mq.container ELSE DOMAIN uq.coll

----------------------------------------------------------------------------
(* Initial state: a queue object and an agent just constructed.            *)

Consumers == 1..NConsumers

NoIndex == 0 - 1

WorkerOwner == NConsumers + 1

EmptyTasks ==
    [i \in {} |-> [kind |-> "local", st |-> "running", msg |-> NoHeaders, n |-> 1,
                   done |-> FALSE, success |-> FALSE]]

\* No call of a tk.py function in progress.
NoProbe == [op |-> "none", a |-> <<>>, b |-> <<>>, S |-> {}, Q |-> {},
            exp |-> 0, at |-> 0, result |-> "none"]

\* No message id has been stored or dereferenced.
NoMailLog == [i \in {} |-> [stores |-> 0, derefs |-> 0]]

\* The user system and the mail store before any record is stored.
StoresEmpty ==
    /\ now = 0
    /\ userRecords = <<>>
    /\ tokenRecords = <<>>
    /\ authlog = <<>>
    /\ mails = <<>>
    /\ maillog = NoMailLog

\* An empty document (no key present) of the record store.
Absent == "<absent>"
NoDoc == [a |-> Absent, b |-> Absent]

\* No call was made on the collection.
NoStoreCall == [op |-> "none", query |-> NoDoc, updated |-> NoDoc, upsert |-> FALSE,
                before |-> <<>>, result |-> <<>>]

\* No AUTH command is in progress.
NoAuthResult == [outcome |-> "none", success |-> FALSE, handled |-> FALSE]
NoSession == [pc |-> "idle", method |-> "none", challenges |-> <<>>, responses |-> <<>>,
              payload |-> <<>>, aborted |-> FALSE, cb |-> <<>>, consulted |-> <<>>,
              result |-> NoAuthResult]

\* PERF_DATA[name] of a perf point whose function was not called yet.
PerfPoint(kind) == [kind |-> kind, list |-> <<>>, inflight |-> 0, peak |-> 0,
                    started |-> 0, appended |-> 0]

\* remote_deliver was not called.
NoRemote == [pc |-> "idle", called |-> <<>>, msg |-> <<>>, attempts |-> <<>>]

\* No find is in progress.
NoStream == [pc |-> "idle", fut |-> "none", thread |-> "none", todo |-> <<>>,
             queue |-> <<>>, getter |-> "none", yielded |-> <<>>, matching |-> 0,
             wanted |-> 0]

\* The record store, the SMTP session and the perf point before any use.
ComponentsIdle ==
    /\ rows = <<>>
    /\ storage = [docs |-> <<>>, next_id |-> 0]
    /\ storecall = NoStoreCall
    /\ smtp = NoSession
    /\ perf = PerfPoint("sync")
    /\ remote = NoRemote
    /\ storing = <<>>
    /\ stream = NoStream

AgentInit ==
    /\ qkind \in {"memory", "unqlite"}
    /\ mq = MemInit
    /\ uq = UnqInit
    /\ cons = [c \in Consumers |-> "idle"]
    /\ got = <<>>
    /\ putOrder = <<>>
    /\ removedOnce = {}
    /\ removedTwice = {}
    /\ rmRaised = {}
    /\ getRaised = 0
    /\ epochRemoved = {}
    /\ restarts = 0
    /\ calls = <<>>
    /\ putTasks = <<>>
    /\ worker = [pc |-> "running", index |-> NoIndex, delivery_task |-> NoIndex]
    /\ tasks = EmptyTasks
    /\ cbTasks = <<>>
    /\ removeTasks = <<>>
    /\ rmlog = {}
    /\ raised = 0
    /\ logged = 0
    /\ destroyed = FALSE

Init == AgentInit /\ probe = NoProbe /\ StoresEmpty /\ ComponentsIdle

----------------------------------------------------------------------------
(* Clients of a queue object: producers calling put, consumers calling get *)
(* and then remove with the id that get returned, and the construction of  *)
(* a new queue object on the same collection after the process stopped.    *)

EnvelopeA == [NoHeaders EXCEPT !["Message-Id"] = <<"m1">>, !["To"] = <<UserA>>,
                               !["Delivered-To"] = UserA]
EnvelopeB == [NoHeaders EXCEPT !["Message-Id"] = <<"m2">>, !["To"] = <<UserB>>,
                               !["Delivered-To"] = UserB]

\* An envelope, and EmailMessage() as test_mta_email_queue.py puts it.
QueueMessages == {EnvelopeA, NoHeaders}

GotIds == {got[i].id : i \in 1..Len(got)}

GotIdSeq == [i \in 1..Len(got) |-> got[i].id]

ClientPut(m) ==
    /\ Len(putOrder) < MaxPuts
    /\ putOrder' = Append(putOrder, [id |-> NextId, msg |-> m, call |-> 0])
    /\ QueuePut(m)
    /\ UNCHANGED <<yvars, xvars, uvars, qkind, cons, got, removedOnce, removedTwice, rmRaised, getRaised,
                   epochRemoved, restarts, avars>>

\* A consumer calls MemoryEmailQueue.get: "async with self.lock_getting".  A
\* call made while the lock is taken waits, and changes nothing until then.
MemGetLock(c) ==
    /\ qkind = "memory"
    /\ cons[c] \in {"idle", "cancelled"}
    /\ mq.lock_getting = NoOwner
    /\ mq' = [mq EXCEPT !.lock_getting = c]
    /\ cons' = [cons EXCEPT ![c] = "locked"]
    /\ UNCHANGED <<yvars, xvars, uvars, qkind, uq, got, putOrder, removedOnce, removedTwice, rmRaised,
                   getRaised, epochRemoved, restarts, avars>>

\* MemoryEmailQueue.get after the wait loop: read, advance, and either return
\* (leaving the lock) or call get() again while still holding lock_getting,
\* which is not re-entrant: that call waits for the lock for ever.
MemGetRead(c) ==
    /\ qkind = "memory"
    /\ cons[c] = "locked"
    /\ MemHasUnread(mq)
    /\ IF MemResultTruthy(mq)
       THEN /\ got' = Append(got, [c |-> c, msg |-> mq.container[mq.next_read_id],
                                   id |-> mq.next_read_id])
            /\ mq' = [MemAdvance(mq) EXCEPT !.lock_getting = NoOwner]
            /\ cons' = [cons EXCEPT ![c] = "idle"]
       ELSE /\ got' = got
            /\ mq' = MemAdvance(mq)
            /\ cons' = [cons EXCEPT ![c] = "deadlock"]
    /\ UNCHANGED <<yvars, xvars, uvars, qkind, uq, putOrder, removedOnce, removedTwice, rmRaised,
                   getRaised, epochRemoved, restarts, avars>>

LockKeptOnCancel(q) == q

\* "async with self.lock_getting": the exception that ends the block releases
\* the lock.
LockOnCancel(q) == [q EXCEPT !.lock_getting = NoOwner]

\* The task of a consumer that waits in the loop of MemoryEmailQueue.get is
\* cancelled: CancelledError is raised at "await asyncio.sleep(0)".
ClientCancel(c) ==
    /\ qkind = "memory"
    /\ cons[c] = "locked"
    /\ mq' = LockOnCancel(mq)
    /\ cons' = [cons EXCEPT ![c] = "cancelled"]
    /\ UNCHANGED <<yvars, xvars, uvars, qkind, uq, got, putOrder, removedOnce, removedTwice,
                   rmRaised, getRaised, epochRemoved, restarts, avars>>

\* A consumer's UnQLiteEmailMessageQueue.get, after the wait loop.
UnqGetRead(c) ==
    /\ qkind = "unqlite"
    /\ cons[c] = "idle"
    /\ UnqHasUnread(uq)
    /\ IF UnqGetRaises(uq)
       THEN got' = got /\ getRaised' = getRaised + 1
       ELSE /\ got' = Append(got, [c |-> c, msg |-> UnqGetMessage(uq),
                                   id |-> Head(uq.ids)])
            /\ getRaised' = getRaised
    /\ uq' = UnqPop(uq)
    /\ cons' = [cons EXCEPT ![c] = "idle"]
    /\ UNCHANGED <<yvars, xvars, uvars, qkind, mq, putOrder, removedOnce, removedTwice, rmRaised,
                   epochRemoved, restarts, avars>>

\* remove(id), for an id that get returned, at most twice per id.
ClientRemove(id) ==
    /\ id \in GotIds
    /\ id \notin removedTwice
    /\ IF qkind = "memory"
       THEN /\ IF MemRemoveRaises(mq, id)
               THEN mq' = mq /\ rmRaised' = rmRaised \cup {id}
               ELSE mq' = MemRemove(mq, id) /\ rmRaised' = rmRaised
            /\ uq' = uq
       ELSE uq' = UnqRemove(uq, id) /\ mq' = mq /\ rmRaised' = rmRaised
    /\ removedOnce' = removedOnce \cup {id}
    /\ removedTwice' = IF id \in removedOnce THEN removedTwice \cup {id}
                       ELSE removedTwice
    /\ UNCHANGED <<yvars, xvars, uvars, qkind, cons, got, putOrder, getRaised, epochRemoved, restarts,
                   avars>>

\* The process stops; UnQLiteEmailMessageQueue(coll) is constructed again on
\* the collection, which kept every document that was not deleted.
ClientRestart ==
    /\ qkind = "unqlite"
    /\ restarts < MaxRestarts
    /\ restarts' = restarts + 1
    /\ uq' = UnqNew(uq.coll, uq.last_id)
    /\ cons' = [c \in Consumers |-> "idle"]
    /\ got' = <<>>
    /\ epochRemoved' = removedOnce
    /\ UNCHANGED <<yvars, xvars, uvars, qkind, mq, putOrder, removedOnce, removedTwice, rmRaised,
                   getRaised, avars>>

QueueNext ==
    \/ \E m \in QueueMessages : ClientPut(m)
    \/ \E c \in Consumers : MemGetLock(c)
    \/ \E c \in Consumers : MemGetRead(c)
    \/ \E c \in Consumers : ClientCancel(c)
    \/ \E c \in Consumers : UnqGetRead(c)
    \/ \E id \in GotIds : ClientRemove(id)
    \/ ClientRestart

QueueSpec == Init /\ [][QueueNext]_vars

\* What this queue object has to hand out, in order: every entry put and not
\* removed before the object was constructed.
Expected == SelectSeq(putOrder, LAMBDA e : e.id \notin epochRemoved)

----------------------------------------------------------------------------
(* TransferAgent.handle_message *)

StartsWith(s, prefix) ==
    /\ Len(s) >= Len(prefix)
    /\ SubSeq(s, 1, Len(prefix)) = prefix

\* isinstance(message["X-Peer"], str) and (startswith("127.0.0.1") or
\* startswith("::1") or startswith("localhost"))
PeerIsLoopback(m) ==
    /\ Has(m, "X-Peer")
    /\ \/ StartsWith(m["X-Peer"], <<"127.0.0.1">>)
       \/ StartsWith(m["X-Peer"], <<"::1">>)
       \/ StartsWith(m["X-Peer"], <<"localhost">>)

\* flanker addr_type: an address <<local, host>> is of type "email".
AddrType(a) == IF Len(a) = 2 THEN "email" ELSE "url"

TargetAddressesBccFirst(m) == m["Bcc"] \o m["Cc"] \o m["To"]

\* The address lists of the To, Cc and Bcc headers that are present, in order.
TargetAddresses(m) == m["To"] \o m["Cc"] \o m["Bcc"]

ShouldDeliver(m, internal, a) ==
    /\ AddrType(a) = "email"
    /\ \/ Hostname(a) \in mydomains
       \/ PeerIsLoopback(m)
       \/ internal

ShouldBeDeliveredTo(m, internal) ==
    SelectSeq(TargetAddresses(m), LAMBDA a : ShouldDeliver(m, internal, a))

\* deepcopy(message) with its Delivered-To header replaced by addr
EnvelopeFor(m, a) == [m EXCEPT !["Delivered-To"] = a]

Mail(to, cc, bcc, peer) ==
    [NoHeaders EXCEPT !["Message-Id"] = <<"m1">>, !["From"] = <<UserA>>,
                      !["To"] = to, !["Cc"] = cc, !["Bcc"] = bcc, !["X-Peer"] = peer]

UrlAddress == <<"http", "example.org", "/">>

\* The submissions: (message, internal).
Submissions ==
    { <<Mail(<<UserB>>, <<>>, <<>>, <<"10.0.0.5">>), FALSE>>,
      <<Mail(<<External>>, <<>>, <<>>, <<"10.0.0.5">>), FALSE>>,
      <<Mail(<<External>>, <<>>, <<>>, <<>>), TRUE>>,
      <<Mail(<<External, UserB>>, <<UrlAddress>>, <<>>, <<"127.0.0.1">>), FALSE>>,
      <<Mail(<<External>>, <<>>, <<>>, <<"localhost", ".evil.example">>), FALSE>>,
      <<Mail(<<UserA>>, <<>>, <<UserB>>, <<"10.0.0.5">>), FALSE>>,
      <<[Mail(<<UserB>>, <<>>, <<>>, <<"10.0.0.5">>) EXCEPT !["Message-Id"] = <<>>],
        FALSE>>,
      <<[Mail(<<UserB>>, <<>>, <<>>, <<"10.0.0.5">>) EXCEPT !["Delivered-To"] = UserA],
        FALSE>> }

RecipientsWithoutIdCheck(m, internal) == ShouldBeDeliveredTo(m, internal)

\* "if 'message-id' not in message: return", else should_be_delivered_to
Recipients(m, internal) ==
    IF Has(m, "Message-Id") THEN ShouldBeDeliveredTo(m, internal) ELSE <<>>

AfterFuturesNoGather(n) == "returned"

\* "await asyncio.gather(*queue_futures)": handle_message waits for all its put
\* tasks; gather of no task is done at once.
AfterFutures(n) == IF n = 0 THEN "returned" ELSE "waiting"

\* handle_message up to "await asyncio.gather(*queue_futures)": one put task per
\* recipient, created in order; with no recipient gather is done at once.
HandleMessage(m, internal) ==
    /\ Len(calls) < MaxCalls
    /\ LET c == Len(calls) + 1
           rcpts == Recipients(m, internal)
       IN /\ Len(putOrder) + Len(putTasks) + Len(rcpts) <= MaxEnvelopes
          /\ calls' = Append(calls, [msg |-> m, internal |-> internal,
                                     pend |-> Len(rcpts),
                                     st |-> AfterFutures(Len(rcpts))])
          /\ putTasks' = putTasks \o
                 [i \in 1..Len(rcpts) |-> [call |-> c, env |-> EnvelopeFor(m, rcpts[i])]]
    /\ UNCHANGED <<yvars, xvars, uvars, qvars, hvars, worker, tasks, cbTasks, removeTasks, rmlog, raised,
                   logged, destroyed>>

\* The oldest put task runs: queue.put(msg_copy).
RunPut ==
    /\ putTasks # <<>>
    /\ LET t == Head(putTasks)
       IN /\ QueuePut(t.env)
          /\ putOrder' = Append(putOrder, [id |-> NextId, msg |-> t.env, call |-> t.call])
          /\ calls' = [calls EXCEPT ![t.call].pend = @ - 1]
    /\ putTasks' = Tail(putTasks)
    /\ UNCHANGED <<yvars, xvars, uvars, qkind, cons, got, removedOnce, removedTwice, rmRaised, getRaised,
                   epochRemoved, restarts, worker, tasks, cbTasks, removeTasks, rmlog,
                   raised, logged, destroyed>>

\* gather is done: handle_message logs "handled message" and returns.
HandleMessageReturn(c) ==
    /\ calls[c].st = "waiting"
    /\ calls[c].pend = 0
    /\ calls' = [calls EXCEPT ![c].st = "returned"]
    /\ UNCHANGED <<yvars, xvars, uvars, qvars, hvars, putTasks, worker, tasks, cbTasks, removeTasks, rmlog,
                   raised, logged, destroyed>>

----------------------------------------------------------------------------
(* TransferAgent._cothread_deliveryman *)

QueueHasUnread == IF qkind = "memory" THEN MemHasUnread(mq) ELSE UnqHasUnread(uq)

\* queue.get() of the worker: does it return a message, raise, or (memory queue,
\* falsy entry) call get() again under the lock it holds.
GetOutcome ==
    IF qkind = "memory"
    THEN IF MemResultTruthy(mq) THEN "message" ELSE "deadlock"
    ELSE IF UnqGetRaises(uq) THEN "raise" ELSE "message"

GetMessage == IF qkind = "memory" THEN mq.container[mq.next_read_id]
              ELSE UnqGetMessage(uq)

GetIndex == IF qkind = "memory" THEN mq.next_read_id ELSE Head(uq.ids)

RewriteBccKeeps(m) == m

\* "if 'bcc' in message: del message['bcc']; message['bcc'] = message['delivered-to']"
RewriteBcc(m) ==
    IF Has(m, "Bcc") THEN [m EXCEPT !["Bcc"] = <<m["Delivered-To"]>>] ELSE m

RouteAlwaysRemote(m) == "remote"

RouteAlwaysLocal(m) == "local"

\* "if delivered_to.hostname in self.mydomains"
Route(m) == IF Hostname(m["Delivered-To"]) \in mydomains THEN "local" ELSE "remote"

\* What the loop body does with the message that get returned.
Disposition(m) ==
    IF ~Has(m, "Delivered-To") THEN "drop"
    ELSE IF ~ParsesAsAddress(m["Delivered-To"]) THEN "raise"
    ELSE Route(m)

\* "except Exception as e: __logger.exception(exc_info=e)": Logger.exception has
\* a required parameter msg, so the handler raises TypeError, nothing is logged
\* and the exception ends the worker coroutine.
WorkerAfterException(w) == [w EXCEPT !.pc = "dead"]

NewTask(kind, m, id) ==
    [kind |-> kind, st |-> "running", msg |-> m,
     n |-> IF id \in DOMAIN tasks THEN tasks[id].n + 1 ELSE 1,
     done |-> FALSE, success |-> FALSE]

WorkerWaitsForRunning(ts) == {id \in DOMAIN ts : ts[id].st = "running"}

\* The delivery tasks the worker awaits before its next queue.get():
\* "asyncio.ensure_future(...)" is a statement, its task is not awaited.
WorkerWaitsFor(ts) == {}

\* One turn of the loop: from queue.get() returning (or raising) to the next
\* "await self.queue.get()".  The turn has no suspension point of its own.
WorkerStep ==
    /\ worker.pc = "running"
    /\ QueueHasUnread
    /\ WorkerWaitsFor(tasks) = {}
    /\ LET out == GetOutcome
           id == GetIndex
           disp == IF out = "message" THEN Disposition(GetMessage) ELSE out
           m == RewriteBcc(GetMessage)
       IN /\ IF qkind = "memory"
             THEN /\ uq' = uq
                  /\ mq' = IF out = "deadlock"
                           THEN [MemAdvance(mq) EXCEPT !.lock_getting = WorkerOwner]
                           ELSE IF disp \in {"local", "remote", "raise"}
                           THEN [MemAdvance(mq) EXCEPT !.container[id] = m]
                           ELSE MemAdvance(mq)
             ELSE uq' = UnqPop(uq) /\ mq' = mq
          /\ worker' = IF disp = "deadlock" THEN [worker EXCEPT !.pc = "deadlock"]
                       ELSE IF out = "raise" THEN WorkerAfterException(worker)
                       ELSE IF disp = "raise"
                       THEN WorkerAfterException([worker EXCEPT !.index = id])
                       ELSE IF disp = "drop" THEN [worker EXCEPT !.index = id]
                       ELSE [worker EXCEPT !.index = id, !.delivery_task = id]
          /\ tasks' = IF disp \in {"local", "remote"}
                      THEN StoreAt(tasks, id, NewTask(disp, m, id))
                      ELSE tasks
          /\ raised' = IF disp = "raise" THEN raised + 1 ELSE raised
    /\ UNCHANGED <<yvars, xvars, uvars, qkind, hvars, calls, putTasks, cbTasks, removeTasks, rmlog, logged,
                   destroyed>>

\* A delivery task (local_delivery_handler or remote_deliver) ends: it returns
\* or it raises.
TaskEndsCore(id, ok) ==
    /\ id \in DOMAIN tasks
    /\ tasks[id].st = "running"
    /\ tasks' = [tasks EXCEPT ![id].st = IF ok THEN "ok" ELSE "failed"]
    /\ UNCHANGED <<yvars, xvars, uvars, qvars, hvars, calls, putTasks, worker, removeTasks, rmlog,
                   raised, logged, destroyed>>

\* mta/__init__.py: nothing is attached to the task.
TaskEnds(id, ok) == TaskEndsCore(id, ok) /\ cbTasks' = cbTasks

DestroyKeepsWorker ==
    /\ ~destroyed
    /\ destroyed' = TRUE
    /\ UNCHANGED <<yvars, xvars, uvars, qkind, mq, uq, hvars, calls, putTasks, worker, tasks,
                   cbTasks, removeTasks, rmlog, raised, logged>>

\* destory(): "self._task_deliveryman.cancel(...)".  The cancellation leaves
\* the "async with" of a get in progress, which releases lock_getting.
Destroy ==
    /\ ~destroyed
    /\ destroyed' = TRUE
    /\ worker' = IF worker.pc \in {"running", "deadlock"}
                 THEN [worker EXCEPT !.pc = "cancelled"] ELSE worker
    /\ mq' = IF mq.lock_getting = WorkerOwner
             THEN [mq EXCEPT !.lock_getting = NoOwner] ELSE mq
    /\ UNCHANGED <<yvars, xvars, uvars, qkind, uq, hvars, calls, putTasks, tasks, cbTasks, removeTasks,
                   rmlog, raised, logged>>

Next ==
    \/ \E sub \in Submissions : HandleMessage(sub[1], sub[2])
    \/ RunPut
    \/ \E c \in 1..Len(calls) : HandleMessageReturn(c)
    \/ WorkerStep
    \/ \E id \in DOMAIN tasks, ok \in BOOLEAN : TaskEnds(id, ok)
    \/ Destroy

Spec == Init /\ [][Next]_vars

\* The scheduling of the event loop: a ready put task runs, and the worker,
\* which polls the queue with sleep(0), gets its turn.
FairSpec == Spec /\ WF_vars(RunPut) /\ WF_vars(WorkerStep)

----------------------------------------------------------------------------
(* Entries that reach the agent's queue from outside handle_message (the   *)
(* queue is an attribute of the agent, and a custom_queue is shared with   *)
(* its provider).                                                          *)

BadEnvelope == [EnvelopeA EXCEPT !["Delivered-To"] = Unparsable]
Undirected == [EnvelopeA EXCEPT !["Delivered-To"] = <<>>]

RawEnvelopes == {BadEnvelope, Undirected}

PutRaw(m) ==
    /\ Len(putOrder) + Len(putTasks) < MaxEnvelopes
    /\ QueuePut(m)
    /\ putOrder' = Append(putOrder, [id |-> NextId, msg |-> m, call |-> 0])
    /\ UNCHANGED <<yvars, xvars, uvars, qkind, cons, got, removedOnce, removedTwice, rmRaised, getRaised,
                   epochRemoved, restarts, avars>>

FaultNext ==
    \/ Next
    \/ \E m \in RawEnvelopes : PutRaw(m)

SpecFault == Init /\ [][FaultNext]_vars

----------------------------------------------------------------------------
(* The worker of src/mailboat/mta.py: the same loop, with a done-callback  *)
(* on every delivery task.  The callbacks are closures of the worker's     *)
(* frame: they read its variables index and delivery_task when they run.   *)

LegacyTaskEnds(id, ok) == TaskEndsCore(id, ok) /\ cbTasks' = Append(cbTasks, id)

\* when_local_delivery_done / when_remote_delivery_done for the future fut:
\* "asyncio.ensure_future(self.queue.remove(index)); delivery_task.done = True;
\*  delivery_task.success = not fut.exception()"
DoneCallback ==
    /\ cbTasks # <<>>
    /\ LET fut == Head(cbTasks)
       IN /\ removeTasks' = Append(removeTasks, worker.index)
          /\ tasks' = [tasks EXCEPT ![worker.delivery_task].done = TRUE,
                                    ![worker.delivery_task].success =
                                        (tasks[fut].st = "ok")]
    /\ cbTasks' = Tail(cbTasks)
    /\ UNCHANGED <<yvars, xvars, uvars, qvars, hvars, calls, putTasks, worker, rmlog, raised, logged,
                   destroyed>>

\* The oldest remove task runs: queue.remove(index).  An AssertionError of the
\* memory queue ends that task only.
RunRemove ==
    /\ removeTasks # <<>>
    /\ LET id == Head(removeTasks)
       IN /\ rmlog' = rmlog \cup
                 {[id |-> id,
                   ok |-> id \in DOMAIN tasks /\ tasks[id].st = "ok",
                   raised |-> qkind = "memory" /\ MemRemoveRaises(mq, id)]}
          /\ IF qkind = "memory"
             THEN /\ mq' = IF MemRemoveRaises(mq, id) THEN mq ELSE MemRemove(mq, id)
                  /\ uq' = uq
             ELSE uq' = UnqRemove(uq, id) /\ mq' = mq
    /\ removeTasks' = Tail(removeTasks)
    /\ UNCHANGED <<yvars, xvars, uvars, qkind, hvars, calls, putTasks, worker, tasks, cbTasks, raised,
                   logged, destroyed>>

LegacyNext ==
    \/ \E sub \in Submissions : HandleMessage(sub[1], sub[2])
    \/ RunPut
    \/ \E c \in 1..Len(calls) : HandleMessageReturn(c)
    \/ WorkerStep
    \/ \E id \in DOMAIN tasks, ok \in BOOLEAN : LegacyTaskEnds(id, ok)
    \/ DoneCallback
    \/ RunRemove
    \/ Destroy

SpecLegacy == Init /\ [][LegacyNext]_vars

----------------------------------------------------------------------------
(* Properties of the agent.                                                *)

\* The envelopes handle_message made: those put, then those of pending put tasks.
Envelopes ==
    [i \in 1..Len(putOrder) |-> [call |-> putOrder[i].call, env |-> putOrder[i].msg]]
        \o putTasks

\* The loopback submitters the specification names.
LoopbackPeers == {<<"127.0.0.1">>, <<"::1">>, <<"localhost">>}

\* C1: open-relay protection.  For a call handle_message(message, internal=False)
\* whose X-Peer is none of 127.0.0.1, ::1, localhost, no envelope is made for a
\* recipient whose hostname is not in mydomains.
C1_NoOpenRelay ==
    \A i \in 1..Len(Envelopes) :
        LET e == Envelopes[i]
        IN (/\ e.call > 0
            /\ ~calls[e.call].internal
            /\ calls[e.call].msg["X-Peer"] \notin LoopbackPeers)
           => Hostname(e.env["Delivered-To"]) \in mydomains

\* The same with "is no loopback submitter" read as the prefix test of the code:
\* this holds.
NoRelayUnlessPeerPrefix ==
    \A i \in 1..Len(Envelopes) :
        LET e == Envelopes[i]
        IN (/\ e.call > 0
            /\ ~calls[e.call].internal
            /\ ~PeerIsLoopback(calls[e.call].msg))
           => Hostname(e.env["Delivered-To"]) \in mydomains

\* C2: at-least-once hand-off.  queue.remove(id) is invoked only for an envelope
\* whose delivery has completed successfully, and an envelope whose delivery
\* failed or has not finished is still stored in the queue.
C2_RemoveOnlyAfterSuccess ==
    /\ \A r \in rmlog : r.ok
    /\ \A id \in DOMAIN tasks : tasks[id].st # "ok" => id \in Stored

Quiescent ==
    /\ putTasks = <<>>
    /\ cbTasks = <<>>
    /\ removeTasks = <<>>
    /\ \A id \in DOMAIN tasks : tasks[id].st # "running"
    /\ ~(worker.pc = "running" /\ QueueHasUnread)

\* C3: every envelope handed to a delivery function is removed from the queue
\* once its delivery task has completed, succeeded or raised: when nothing is
\* left to run, no envelope of a completed task is still stored.
C3_RemovedOnCompletion ==
    Quiescent => \A id \in DOMAIN tasks : id \notin Stored

EntryOf(id) == putOrder[CHOOSE i \in 1..Len(putOrder) : putOrder[i].id = id]

LocalRecipients(c) ==
    IF Len(calls) >= c /\ Has(calls[c].msg, "Message-Id")
    THEN {a \in {TargetAddresses(calls[c].msg)[k] :
                    k \in 1..Len(TargetAddresses(calls[c].msg))} :
              AddrType(a) = "email" /\ Hostname(a) \in mydomains}
    ELSE {}

HandedToLocal(c, a) ==
    \E id \in DOMAIN tasks :
        /\ tasks[id].kind = "local"
        /\ tasks[id].msg["Delivered-To"] = a
        /\ EntryOf(id).call = c

C9_Safety ==
    \A id \in DOMAIN tasks :
        LET e == EntryOf(id)
        IN /\ tasks[id].n = 1
           /\ Hostname(e.msg["Delivered-To"]) \in mydomains => tasks[id].kind = "local"
           /\ e.call > 0 =>
                  \A h \in {"Message-Id", "To", "From"} :
                      tasks[id].msg[h] = calls[e.call].msg[h]

\* C9: eventual local delivery.  A message with a Message-Id that handle_message
\* accepted is, for each of its recipients in mydomains, eventually handed to the
\* local delivery handler unless the agent is destroyed (again and again every
\* message accepted so far has been handed over); no envelope is handed over
\* twice, and Message-Id, To and From are those of the message.
C9_EventualLocalDelivery ==
    /\ []C9_Safety
    /\ []<>(destroyed \/ \A c \in 1..Len(calls) :
                            \A a \in LocalRecipients(c) : HandedToLocal(c, a))

\* C9 witness: a message for a local recipient was handed to the local handler
\* and the handler has returned.
C9_Witness ==
    \E id \in DOMAIN tasks :
        /\ tasks[id].kind = "local"
        /\ tasks[id].st = "ok"
        /\ EntryOf(id).call > 0
        /\ ~destroyed

\* C10: worker robustness.  After an exception inside the worker loop the error
\* is logged and the worker is still running (or was cancelled by destory()).
C10_WorkerSurvives ==
    raised > 0 => (worker.pc # "dead" /\ logged = raised)

----------------------------------------------------------------------------
(* Properties of the queue objects (QueueSpec).                            *)

IdsOf(entries) == [i \in 1..Len(entries) |-> entries[i].id]

\* C4: durable queue recovery.  After a new UnQLiteEmailMessageQueue is built on
\* the collection, the ids it has handed out followed by the ids it still holds
\* are exactly the entries put and not removed before, in insertion order, each
\* with the message that was put; no entry removed before is handed out.
C4_DurableRecovery ==
    (qkind = "unqlite" /\ restarts > 0) =>
        /\ GotIdSeq \o uq.ids = IdsOf(Expected)
        /\ \A i \in 1..Len(got) : got[i].msg = Expected[i].msg
        /\ \A i \in 1..Len(uq.ids) :
               /\ uq.ids[i] \in DOMAIN uq.coll
               /\ ParseStr(uq.coll[uq.ids[i]]) = Expected[Len(got) + i].msg
        /\ GotIds \cap epochRemoved = {}

\* C4 witness: after a rebuild, two surviving entries were handed out again and
\* an entry removed before the rebuild was not.
C4_Witness ==
    /\ qkind = "unqlite"
    /\ restarts > 0
    /\ Len(got) >= 2
    /\ epochRemoved # {}

\* C5: FIFO.  For both queues the entries returned by successive get calls are,
\* in order, the entries in the order in which their put calls returned, each
\* with the id it was stored under.
C5_Fifo ==
    /\ Len(got) <= Len(Expected)
    /\ \A i \in 1..Len(got) :
           /\ got[i].id = Expected[i].id
           /\ got[i].msg = Expected[i].msg

\* C5 witness: two entries put by producers were returned to two different
\* consumers, in a queue of either kind.
C5_Witness ==
    /\ Len(got) >= 2
    /\ got[1].c # got[2].c
    /\ got[1].msg # NoHeaders

\* C6: idempotent remove.  A second remove(id) for an id that get returned
\* completes without error.
C6_IdempotentRemove == \A id \in removedTwice : id \notin rmRaised

\* C7: MemoryEmailQueue.get never hands out an entry twice: the ids returned
\* are pairwise distinct, whichever consumers called.
C7_DistinctGets ==
    qkind = "memory" =>
        \A i, j \in 1..Len(got) : i # j => got[i].id # got[j].id

\* C7 witness: two consumers each got an entry of the memory queue.
C7_Witness ==
    /\ qkind = "memory"
    /\ Len(got) >= 2
    /\ got[1].c # got[2].c

\* C8: MemoryEmailQueue.get terminates when an entry not yet returned exists:
\* a get call is left blocked only when every entry put has been returned.
C8_GetTerminates ==
    qkind = "memory" =>
        \A c \in Consumers : cons[c] = "deadlock" => Len(got) = Len(putOrder)

----------------------------------------------------------------------------
(* handle_message: what one call enqueues.                                 *)

EnvelopesOf(c) == SelectSeq(Envelopes, LAMBDA e : e.call = c)

CallsWithoutId == {c \in 1..Len(calls) : ~Has(calls[c].msg, "Message-Id")}

\* The step is a call of handle_message on a message without Message-Id.
DropStep ==
    /\ Len(calls') = Len(calls) + 1
    /\ ~Has(calls'[Len(calls')].msg, "Message-Id")

\* C11: a message without Message-Id is dropped silently.  The call leaves the
\* queue, the put tasks and the delivery tasks as they were and has returned
\* (it never waits and never raises); no envelope, and so no delivery, ever
\* belongs to it.
C11_DroppedSilently ==
    /\ [](\A c \in CallsWithoutId :
            /\ calls[c].st = "returned"
            /\ EnvelopesOf(c) = <<>>)
    /\ [][DropStep => /\ UNCHANGED <<qvars, putTasks, putOrder, tasks, worker>>
                      /\ calls'[Len(calls')].st = "returned"]_vars

C11_Witness ==
    /\ CallsWithoutId # {}
    /\ Len(putOrder) > 0
    /\ DOMAIN tasks # {}

\* The recipient occurrences the specification accepts: an email address of
\* mydomains, or any email address when the submitter is a loopback peer or the
\* call is internal.
AcceptedOccurrences(m, internal) ==
    SelectSeq(TargetAddresses(m),
              LAMBDA a : /\ AddrType(a) = "email"
                         /\ \/ Hostname(a) \in mydomains
                            \/ m["X-Peer"] \in LoopbackPeers
                            \/ internal)

EnvelopeList(m, rcpts) ==
    [i \in 1..Len(rcpts) |-> [m EXCEPT !["Delivered-To"] = rcpts[i]]]

EnvelopeMessages(c) == [i \in 1..Len(EnvelopesOf(c)) |-> EnvelopesOf(c)[i].env]

\* C12: for a message with Message-Id, a call that returned has enqueued one
\* envelope per accepted recipient occurrence of To, Cc and Bcc, in order; each
\* is the message with its Delivered-To set to that recipient, whatever
\* Delivered-To the message had; the message of the caller is as it was.
C12_OneEnvelopePerAccepted ==
    \A c \in 1..Len(calls) :
        (Has(calls[c].msg, "Message-Id") /\ calls[c].st = "returned")
        => EnvelopeMessages(c) =
               EnvelopeList(calls[c].msg, AcceptedOccurrences(calls[c].msg, calls[c].internal))

\* The same with the accepted recipients taken by the prefix test on X-Peer that
\* the code applies: this holds.
OneEnvelopePerRecipientByPrefix ==
    \A c \in 1..Len(calls) :
        (Has(calls[c].msg, "Message-Id") /\ calls[c].st = "returned")
        => EnvelopeMessages(c) =
               EnvelopeList(calls[c].msg, ShouldBeDeliveredTo(calls[c].msg, calls[c].internal))

OneEnvelopePerRecipient_Witness ==
    \E c \in 1..Len(calls) :
        /\ calls[c].st = "returned"
        /\ Has(calls[c].msg, "Delivered-To")
        /\ Len(EnvelopesOf(c)) = 1
        /\ EnvelopesOf(c)[1].env["Delivered-To"] = UserB

----------------------------------------------------------------------------
(* usrsys/tk.py: Scope and TokenRecord.  A scope string is a sequence of   *)
(* pieces in which "." is the separator that str.split(".") cuts at.       *)

SCOPE_ACT_AS_USER == <<"act_as_user">>

ScopeStrings ==
    { SCOPE_ACT_AS_USER, <<"mail">>, <<"mail", ".", "read">>, <<"mail", ".", "send">>,
      <<"user", ".", "profile">>, <<"user", ".", "profile", ".", "read">> }

ScopeSets == {S \in SUBSET ScopeStrings : Cardinality(S) <= MaxScopeSet}

\* str.split("."): the pieces between the separators.
RECURSIVE Split(_)
Split(s) ==
    LET dots == {i \in 1..Len(s) : s[i] = "."}
    IN IF dots = {} THEN <<s>>
       ELSE LET i == CHOOSE d \in dots : \A e \in dots : d <= e
            IN <<SubSeq(s, 1, i - 1)>> \o Split(SubSeq(s, i + 1, Len(s)))

\* Scope.match: zip() stops at the shorter list, then
\* "return len(defined) >= len(requesting)".
Match(defined_scope, requesting_scope) ==
    LET defined == Split(defined_scope)
        requesting == Split(requesting_scope)
        n == IF Len(defined) < Len(requesting) THEN Len(defined) ELSE Len(requesting)
    IN /\ \A i \in 1..n : defined[i] = requesting[i]
       /\ Len(defined) >= Len(requesting)

\* Scope.__contains__
Contains(scope, val) == \E s \in scope : Match(s, val)

\* Scope.is_superset_of: "for s in self.scope: for s2 in scope_set:
\* if not self.match(s, s2): return False"
IsSupersetOf(scope, scope_set) == \A s \in scope : \A s2 \in scope_set : Match(s, s2)

\* TokenRecord.expiration = None
None == 0 - 1

Expirations == {None} \cup (0..MaxClock)

\* TokenRecord.is_avaliable: "return self.expiration < datetime.utcnow().timestamp()";
\* "<" between None and a float raises TypeError.
IsAvailable(expiration, t) ==
    IF expiration = None THEN "TypeError"
    ELSE IF expiration < t THEN "True" ELSE "False"

Str(bool) == IF bool THEN "True" ELSE "False"

\* The calls of these functions, with their arguments.
ProbeInputs ==
    {[NoProbe EXCEPT !.op = "match", !.a = d, !.b = r, !.result = "pending"] :
        d \in ScopeStrings, r \in ScopeStrings}
    \cup {[NoProbe EXCEPT !.op = "contains", !.S = S, !.b = v, !.result = "pending"] :
        S \in ScopeSets, v \in ScopeStrings}
    \cup {[NoProbe EXCEPT !.op = "superset", !.S = S, !.Q = Q, !.result = "pending"] :
        S \in ScopeSets, Q \in ScopeSets}
    \cup {[NoProbe EXCEPT !.op = "available", !.exp = e, !.at = t, !.result = "pending"] :
        e \in Expirations, t \in 0..MaxClock}

TkInit == AgentInit /\ qkind = "memory" /\ StoresEmpty /\ probe \in ProbeInputs /\ ComponentsIdle

Pending(op) == probe.op = op /\ probe.result = "pending"

MatchCall ==
    /\ Pending("match")
    /\ probe' = [probe EXCEPT !.result = Str(Match(probe.a, probe.b))]
    /\ UNCHANGED <<yvars, xvars, qvars, hvars, avars, now, userRecords, tokenRecords, authlog, mails,
                   maillog>>

ContainsCall ==
    /\ Pending("contains")
    /\ probe' = [probe EXCEPT !.result = Str(Contains(probe.S, probe.b))]
    /\ UNCHANGED <<yvars, xvars, qvars, hvars, avars, now, userRecords, tokenRecords, authlog, mails,
                   maillog>>

SupersetCall ==
    /\ Pending("superset")
    /\ probe' = [probe EXCEPT !.result = Str(IsSupersetOf(probe.S, probe.Q))]
    /\ UNCHANGED <<yvars, xvars, qvars, hvars, avars, now, userRecords, tokenRecords, authlog, mails,
                   maillog>>

AvailableCall ==
    /\ Pending("available")
    /\ probe' = [probe EXCEPT !.result = IsAvailable(probe.exp, probe.at)]
    /\ UNCHANGED <<yvars, xvars, qvars, hvars, avars, now, userRecords, tokenRecords, authlog, mails,
                   maillog>>

TkNext == MatchCall \/ ContainsCall \/ SupersetCall \/ AvailableCall

TkSpec == TkInit /\ [][TkNext]_vars

----------------------------------------------------------------------------
(* Properties of Scope and TokenRecord.                                    *)

IsPrefixOf(xs, ys) == Len(xs) <= Len(ys) /\ SubSeq(ys, 1, Len(xs)) = xs

\* The cover rule of the specification: the dot-components of defined are a
\* prefix of, and no longer than, those of requesting.
Covers(defined, requesting) == IsPrefixOf(Split(defined), Split(requesting))

Returned(op) == probe.op = op /\ probe.result # "pending"

\* C13: Scope.match(defined, requesting) is true iff defined covers requesting
\* by the dot-prefix rule, and s is in Scope(S) iff some element of S covers s.
C13_ScopeCover ==
    /\ Returned("match") => (probe.result = "True" <=> Covers(probe.a, probe.b))
    /\ Returned("contains")
       => (probe.result = "True" <=> \E s \in probe.S : Covers(s, probe.b))

\* C14: Scope(S).is_superset_of(Q) is true iff every scope of Q is covered by
\* some element of S.
C14_SupersetTest ==
    Returned("superset")
    => (probe.result = "True" <=> \A q \in probe.Q : \E s \in probe.S : Covers(s, q))

\* The same with "covered" taken as Scope.match computes it: violated as well,
\* so the superset test fails on its own account.
SupersetByMatch ==
    Returned("superset")
    => (probe.result = "True" <=> \A q \in probe.Q : \E s \in probe.S : Match(s, q))

\* C15: is_avaliable() never raises and is true iff expiration is unset or
\* strictly greater than the current time.
C15_TokenAvailable ==
    Returned("available")
    => /\ probe.result \in {"True", "False"}
       /\ probe.result = "True" <=> (probe.exp = None \/ probe.exp > probe.at)

----------------------------------------------------------------------------
(* The user system: UserRecordStorage, TokenRecordStorage (usrsys/         *)
(* storage.py), AuthProvider (usrsys/auth.py) and the IMAP Login           *)
(* (imap/__init__.py).  A collection is the sequence of its documents in   *)
(* insertion order; find_one returns the first document that matches.      *)

\* Python None where a string is expected.
NoneStr == "<None>"

\* bool(s) of an Optional[str]
TruthyStr(s) == s # NoneStr /\ s # ""

Usernames == {"alice", "bob"}
Passwords == {"pw1"}

\* password_hashing: the argon2id hash of the password, as an opaque value.
PasswordHashing(password) == <<"argon2id", password>>

\* password_check_sync: nacl.pwhash.argon2id.verify returns True for the
\* password of the hash and raises InvalidkeyError for any other.
PasswordCheck(password, password_hash) ==
    IF password_hash = PasswordHashing(password) THEN "True" ELSE "InvalidkeyError"

\* find_one({"username": username}) on the users: the index of the first
\* matching document, 0 for None.
FindUserByName(username) ==
    LET hits == {i \in 1..Len(userRecords) : userRecords[i].username = username}
    IN IF hits = {} THEN 0 ELSE CHOOSE i \in hits : \A j \in hits : i <= j

\* find_one({"profileid": profileid}) on the users.
FindUserByProfile(profileid) ==
    LET hits == {i \in 1..Len(userRecords) : userRecords[i].profileid = profileid}
    IN IF hits = {} THEN 0 ELSE CHOOSE i \in hits : \A j \in hits : i <= j

\* find_one({"token": token}) on the tokens.
FindToken(token) ==
    LET hits == {i \in 1..Len(tokenRecords) : tokenRecords[i].token = token}
    IN IF hits = {} THEN 0 ELSE CHOOSE i \in hits : \A j \in hits : i <= j

\* UserRecordStorage.check_user_password
CheckUserPassword(username, password) ==
    IF FindUserByName(username) = 0 THEN "False"
    ELSE PasswordCheck(password, userRecords[FindUserByName(username)].password_b64hash)

\* TokenRecord.new: "expir" is assigned only under "if expiration_offest_seconds:",
\* and read in "expiration=(expir if expir else None)": without an offset the
\* read raises UnboundLocalError.
TokenRecordNewRaises(expiration_offest_seconds) ==
    expiration_offest_seconds = None \/ expiration_offest_seconds = 0

\* TokenRecord.new when it returns; tokenid stands for str(uuid4()).
TokenRecordNew(tokenid, profile_id, appid, scope, expiration_offest_seconds) ==
    [token |-> tokenid,
     profileid |-> profile_id,
     appid |-> IF TruthyStr(appid) THEN appid ELSE "-1",
     scope |-> IF scope = <<>> THEN <<SCOPE_ACT_AS_USER>> ELSE scope,
     expiration |-> now + expiration_offest_seconds]

\* TokenRecordStorage.create_token calls TokenRecord.new without an offset.
CreateTokenOffset == None

\* create_token: the exception it ends in, or "stored".
CreateTokenOutcome ==
    IF TokenRecordNewRaises(CreateTokenOffset) THEN "UnboundLocalError" ELSE "stored"

\* The token collection after create_token.
CreateTokenStore(profile_id, appid, scope) ==
    IF TokenRecordNewRaises(CreateTokenOffset) THEN tokenRecords
    ELSE Append(tokenRecords,
                TokenRecordNew("uuid-" \o ToString(Len(tokenRecords) + 1), profile_id, appid,
                               scope, CreateTokenOffset))

\* The token string create_token returns, None when it stored nothing.
CreateTokenString(store) ==
    IF Len(store) > Len(tokenRecords) THEN store[Len(store)].token ELSE NoneStr

AuthAnswer(handled, success, token, store) ==
    [outcome |-> "AuthAnswer", handled |-> handled, success |-> success,
     token |-> token, store |-> store]

Raises(exception) ==
    [outcome |-> exception, handled |-> FALSE, success |-> FALSE, token |-> NoneStr,
     store |-> tokenRecords]

\* AuthProvider.auth: the answer, or the exception that leaves it, and the token
\* collection afterwards.
AuthProviderAuth(request) ==
    IF TruthyStr(request.username) /\ TruthyStr(request.password)
    THEN LET password_checking == CheckUserPassword(request.username, request.password)
         IN IF password_checking = "InvalidkeyError" THEN Raises("InvalidkeyError")
            ELSE IF password_checking = "True"
            THEN IF request.request_token /\ FindUserByName(request.username) # 0
                 THEN IF CreateTokenOutcome # "stored" THEN Raises(CreateTokenOutcome)
                      ELSE LET store == CreateTokenStore(
                                   userRecords[FindUserByName(request.username)].profileid,
                                   request.appid, request.new_token_scope)
                           IN AuthAnswer(TRUE, TRUE, CreateTokenString(store), store)
                 ELSE AuthAnswer(TRUE, TRUE, NoneStr, tokenRecords)
            ELSE AuthAnswer(TRUE, FALSE, NoneStr, tokenRecords)
    ELSE AuthAnswer(FALSE, FALSE, NoneStr, tokenRecords)

AuthRequest(username, password, appid, new_token_scope, request_token) ==
    [username |-> username, password |-> password, appid |-> appid,
     new_token_scope |-> new_token_scope, request_token |-> request_token]

AuthRequests ==
    {AuthRequest(u, p, a[1], a[2], r) :
        u \in Usernames \cup {NoneStr}, p \in Passwords \cup {NoneStr, "", "bad"},
        a \in {<<NoneStr, <<>>>>, <<"7", <<<<"mail">>>>>>}, r \in BOOLEAN}

\* Which branch of Login.authenticate the authcid type selects.
AuthcidBranchWithAdmin(authcid_type) ==
    IF authcid_type \in {"login-token", "admin-token"} THEN "token"
    ELSE IF ~TruthyStr(authcid_type) THEN "password" ELSE "reject"

\* "if credentials.authcid_type == 'login-token'" / "elif not
\* credentials.authcid_type" / the final "raise InvalidAuth()"
AuthcidBranch(authcid_type) ==
    IF authcid_type = "login-token" THEN "token"
    ELSE IF ~TruthyStr(authcid_type) THEN "password" ELSE "reject"

\* The login-token branch of Login.authenticate.
AuthenticateToken(authcid) ==
    LET t == FindToken(authcid)
        token_record == tokenRecords[t]
        scope == {token_record.scope[i] : i \in 1..Len(token_record.scope)}
    IN IF t = 0 THEN "InvalidAuth"
       ELSE IF IsAvailable(token_record.expiration, now) = "TypeError" THEN "TypeError"
       ELSE IF IsAvailable(token_record.expiration, now) = "False" THEN "InvalidAuth"
       ELSE IF FindUserByProfile(token_record.profileid) = 0 THEN "InvalidAuth"
       ELSE IF \/ ~IsSupersetOf(scope, {SCOPE_ACT_AS_USER})
               \/ IsSupersetOf(scope, {<<"mail">>})
       THEN "AuthorizationFailure"
       ELSE "Identity"

\* The untyped (password) branch; create_new_token_for_mail_access calls
\* create_token(profileid, scope=[SCOPE_ACT_AS_USER]).
AuthenticatePassword(authcid, secret) ==
    LET result == AuthProviderAuth(AuthRequest(authcid, secret, NoneStr, <<>>, FALSE))
        u == FindUserByName(authcid)
    IN IF secret = NoneStr THEN Raises("InvalidAuth")
       ELSE IF result.outcome # "AuthAnswer" THEN result
       ELSE IF ~result.handled \/ ~result.success THEN Raises("InvalidAuth")
       ELSE IF u = 0 THEN Raises("InvalidAuth")
       ELSE IF CreateTokenOutcome # "stored" THEN Raises(CreateTokenOutcome)
       ELSE [Raises("Identity") EXCEPT
                !.store = CreateTokenStore(userRecords[u].profileid, NoneStr,
                                           <<SCOPE_ACT_AS_USER>>)]

\* Login.authenticate: "Identity" or the exception it ends in, and the token
\* collection afterwards.
LoginAuthenticate(authcid_type, authcid, secret) ==
    IF AuthcidBranch(authcid_type) = "token" THEN Raises(AuthenticateToken(authcid))
    ELSE IF AuthcidBranch(authcid_type) = "password"
    THEN AuthenticatePassword(authcid, secret)
    ELSE Raises("InvalidAuth")

AuthcidTypes == {"login-token", "", "admin-token", "session-token"}
Authcids == {"t1"} \cup Usernames
Secrets == Passwords \cup {NoneStr, "bad"}

\* The token records a caller can store with TokenRecordStorage.store.
StorableTokens ==
    {[token |-> "t1", profileid |-> 1, appid |-> "-1", scope |-> sc, expiration |-> e] :
        sc \in {<<SCOPE_ACT_AS_USER>>, <<<<"mail">>>>, <<SCOPE_ACT_AS_USER, <<"mail">>>>,
                <<SCOPE_ACT_AS_USER, <<"mail", ".", "read">>>>},
        e \in {None, 1}}

NoRequest == AuthRequest(NoneStr, NoneStr, NoneStr, <<>>, FALSE)

\* One entry of authlog: the call, the token collection before it, its result.
Call(op, authcid_type, authcid, secret, request, result) ==
    [op |-> op, authcid_type |-> authcid_type, authcid |-> authcid, secret |-> secret,
     request |-> request, before |-> tokenRecords, result |-> result]

UsrInit == AgentInit /\ qkind = "memory" /\ probe = NoProbe /\ StoresEmpty /\ ComponentsIdle

\* Time passes.
Tick ==
    /\ now < MaxClock
    /\ now' = now + 1
    /\ authlog' = <<>>
    /\ UNCHANGED <<yvars, xvars, qvars, hvars, avars, probe, userRecords, tokenRecords, mails, maillog>>

\* UserRecordStorage.create_new_user, with the profile StorageHub.create_user
\* made for it: the record is stored, whatever records there are.
CreateNewUser(username, password) ==
    /\ Len(userRecords) < MaxUsers
    /\ userRecords' = Append(userRecords,
                             [username |-> username,
                              password_b64hash |-> PasswordHashing(password),
                              profileid |-> Len(userRecords) + 1])
    /\ authlog' = <<>>
    /\ UNCHANGED <<yvars, xvars, qvars, hvars, avars, probe, now, tokenRecords, mails, maillog>>

\* TokenRecordStorage.store(record) for a token string that is not stored.
StoreToken(record) ==
    /\ FindToken(record.token) = 0
    /\ tokenRecords' = Append(tokenRecords, record)
    /\ authlog' = <<>>
    /\ UNCHANGED <<yvars, xvars, qvars, hvars, avars, probe, now, userRecords, mails, maillog>>

\* Login.authenticate(credentials)
Authenticate(authcid_type, authcid, secret) ==
    LET result == LoginAuthenticate(authcid_type, authcid, secret)
    IN /\ tokenRecords' = result.store
       /\ authlog' = <<Call("authenticate", authcid_type, authcid, secret, NoRequest,
                            result)>>
       /\ UNCHANGED <<yvars, xvars, qvars, hvars, avars, probe, now, userRecords, mails, maillog>>

\* AuthProvider.auth(request)
Auth(request) ==
    LET result == AuthProviderAuth(request)
    IN /\ tokenRecords' = result.store
       /\ authlog' = <<Call("auth", "", "", NoneStr, request, result)>>
       /\ UNCHANGED <<yvars, xvars, qvars, hvars, avars, probe, now, userRecords, mails, maillog>>

UsrNext ==
    \/ Tick
    \/ \E u \in Usernames, p \in Passwords : CreateNewUser(u, p)
    \/ \E r \in StorableTokens : StoreToken(r)
    \/ \E t \in AuthcidTypes, a \in Authcids, s \in Secrets : Authenticate(t, a, s)
    \/ \E r \in AuthRequests : Auth(r)

UsrSpec == UsrInit /\ [][UsrNext]_vars

----------------------------------------------------------------------------
(* Properties of the user system.                                          *)

Authenticated == authlog # <<>> /\ authlog[1].op = "authenticate"

Authed == authlog # <<>> /\ authlog[1].op = "auth"

\* A token is available by the specification: no expiration, or one later
\* than the current time.
AvailableBySpec(record) == record.expiration = None \/ record.expiration > now

\* The superset test of the specification, on the cover rule of the specification.
SupersetBySpec(scope, query) ==
    \A q \in query : \E i \in 1..Len(scope) : Covers(scope[i], q)

\* The conditions under which the specification lets a login-token in.
TokenAdmissible(authcid) ==
    /\ FindToken(authcid) # 0
    /\ LET record == tokenRecords[FindToken(authcid)]
       IN /\ AvailableBySpec(record)
          /\ FindUserByProfile(record.profileid) # 0
          /\ SupersetBySpec(record.scope, {SCOPE_ACT_AS_USER})
          /\ ~SupersetBySpec(record.scope, {<<"mail">>})

\* C16: authenticate with a login-token returns an identity iff the token
\* record exists, is available, its user exists, and its scope is a superset of
\* {act_as_user} and not of {mail}; an available token of a user whose scope
\* covers mail is refused with AuthorizationFailure.
C16_LoginToken ==
    (Authenticated /\ authlog[1].authcid_type = "login-token")
    => /\ authlog[1].result.outcome = "Identity" <=> TokenAdmissible(authlog[1].authcid)
       /\ (/\ FindToken(authlog[1].authcid) # 0
           /\ AvailableBySpec(tokenRecords[FindToken(authlog[1].authcid)])
           /\ FindUserByProfile(tokenRecords[FindToken(authlog[1].authcid)].profileid) # 0
           /\ tokenRecords[FindToken(authlog[1].authcid)].scope = <<<<"mail">>>>)
          => authlog[1].result.outcome = "AuthorizationFailure"

\* C17: authenticate with an authcid type other than login-token and the
\* untyped form ends in InvalidAuth and leaves the token collection as it was.
C17_OtherTypesRejected ==
    (Authenticated /\ authlog[1].authcid_type \notin {"login-token", "", NoneStr})
    => /\ authlog[1].result.outcome = "InvalidAuth"
       /\ tokenRecords = authlog[1].before

\* An admin-token call on the string of a stored token whose user exists and
\* which the login-token branch lets in.
C17_Witness ==
    /\ Authenticated
    /\ authlog[1].authcid_type = "admin-token"
    /\ authlog[1].authcid = "t1"
    /\ AuthenticateToken("t1") = "Identity"

PasswordVerifies(request) ==
    /\ FindUserByName(request.username) # 0
    /\ userRecords[FindUserByName(request.username)].password_b64hash
           = PasswordHashing(request.password)

\* C18: auth with username and password present answers handled, not success,
\* when the user does not exist or the password does not verify, and mints no
\* token then; it answers success only when the stored hash of an existing
\* user verifies.
C18_AuthFailure ==
    (/\ Authed
     /\ TruthyStr(authlog[1].request.username)
     /\ TruthyStr(authlog[1].request.password))
    => /\ ~PasswordVerifies(authlog[1].request)
          => /\ authlog[1].result.outcome = "AuthAnswer"
             /\ authlog[1].result.handled
             /\ ~authlog[1].result.success
             /\ tokenRecords = authlog[1].before
       /\ authlog[1].result.success => PasswordVerifies(authlog[1].request)

\* C19: auth with valid credentials and request_token stores exactly one new
\* TokenRecord with the profileid of the user, the given appid ("-1" when none)
\* and new_token_scope ([act_as_user] when empty), and answers success with the
\* token string of that record.
C19_TokenMinted ==
    (Authed /\ PasswordVerifies(authlog[1].request) /\ authlog[1].request.request_token)
    => /\ authlog[1].result.outcome = "AuthAnswer"
       /\ authlog[1].result.success
       /\ Len(tokenRecords) = Len(authlog[1].before) + 1
       /\ SubSeq(tokenRecords, 1, Len(authlog[1].before)) = authlog[1].before
       /\ LET r == tokenRecords[Len(tokenRecords)]
              req == authlog[1].request
          IN /\ r.profileid = userRecords[FindUserByName(req.username)].profileid
             /\ r.appid = (IF TruthyStr(req.appid) THEN req.appid ELSE "-1")
             /\ r.scope = (IF req.new_token_scope = <<>> THEN <<SCOPE_ACT_AS_USER>>
                           ELSE req.new_token_scope)
             /\ authlog[1].result.token = r.token

----------------------------------------------------------------------------
(* mailstore.py: MailStore on its "mails" collection.  The calls are made  *)
(* one after the other.                                                    *)

MessageId(mail) == mail["Message-Id"]

\* find_one({"message_id": msg_id}): the index of the first matching
\* document, 0 for None.
FindMail(msg_id) ==
    LET hits == {i \in 1..Len(mails) : mails[i].message_id = msg_id}
    IN IF hits = {} THEN 0 ELSE CHOOSE i \in hits : \A j \in hits : i <= j

\* remove_one({"message_id": message_id})
RemoveOne(docs, i) == SubSeq(docs, 1, i - 1) \o SubSeq(docs, i + 1, Len(docs))

\* MailStore.store_mail: the collection afterwards.
StoreMailResult(mail) ==
    LET i == FindMail(MessageId(mail))
    IN IF i # 0
       THEN [mails EXCEPT ![i].ref_count = @ + 1]
       ELSE Append(mails, [message_id |-> MessageId(mail), raw_mail |-> AsString(mail),
                           ref_count |-> 1])

\* deref_mail_by_id for a record that stays: "record.ref_count -= 1" changes the
\* object find_one built; no update_one follows, the document is as it was.
DerefStays(docs, i) == docs

\* MailStore.deref_mail_by_id: the collection afterwards.
DerefMailResult(message_id) ==
    LET i == FindMail(message_id)
    IN IF i = 0 THEN mails
       ELSE IF mails[i].ref_count - 1 <= 0 THEN RemoveOne(mails, i)
       ELSE DerefStays(mails, i)

StoredMails == {EnvelopeA, EnvelopeB, [EnvelopeA EXCEPT !["Message-Id"] = <<"m3">>]}

MailIds == {MessageId(m) : m \in StoredMails}

Stores(id) == IF id \in DOMAIN maillog THEN maillog[id].stores ELSE 0

Derefs(id) == IF id \in DOMAIN maillog THEN maillog[id].derefs ELSE 0

Logged(id, stores, derefs) ==
    [i \in DOMAIN maillog \cup {id} |->
        IF i = id THEN [stores |-> stores, derefs |-> derefs] ELSE maillog[i]]

MailInit == AgentInit /\ qkind = "memory" /\ probe = NoProbe /\ StoresEmpty /\ ComponentsIdle

StoreMail(mail) ==
    /\ Stores(MessageId(mail)) < MaxStores
    /\ mails' = StoreMailResult(mail)
    /\ maillog' = Logged(MessageId(mail), Stores(MessageId(mail)) + 1,
                         Derefs(MessageId(mail)))
    /\ UNCHANGED <<yvars, xvars, qvars, hvars, avars, probe, now, userRecords, tokenRecords, authlog>>

\* deref_mail_by_id by a holder of one of the references store_mail gave out.
DerefMailById(message_id) ==
    /\ Derefs(message_id) < Stores(message_id)
    /\ mails' = DerefMailResult(message_id)
    /\ maillog' = Logged(message_id, Stores(message_id), Derefs(message_id) + 1)
    /\ UNCHANGED <<yvars, xvars, qvars, hvars, avars, probe, now, userRecords, tokenRecords, authlog>>

\* The mails given to MailBox.append: one with a Message-Id, one without.
AppendedMails == {EnvelopeA, [EnvelopeA EXCEPT !["Message-Id"] = <<>>]}

\* MessageID.new(self.domain).message_id(): an id no other message has.
NewMessageId(n) == <<"generated-" \o ToString(n)>>

\* MailBox.append(mail): the message id of the mail, or a new one that is set
\* on the mail; store_mail(mail); then the MailRecord row of this mailbox.
MailBoxAppend(mail) ==
    /\ Len(rows) < MaxRows
    /\ LET message_id == IF Has(mail, "Message-Id") THEN MessageId(mail)
                         ELSE NewMessageId(Len(rows) + 1)
           stored == [mail EXCEPT !["Message-Id"] = message_id]
       IN /\ Stores(message_id) < MaxStores
          /\ mails' = StoreMailResult(stored)
          /\ maillog' = Logged(message_id, Stores(message_id) + 1, Derefs(message_id))
          /\ rows' = Append(rows, [mailbox_id |-> 1, message_id |-> message_id])
    /\ UNCHANGED <<yvars, storage, storecall, smtp, perf, qvars, hvars, avars, probe, now,
                   userRecords, tokenRecords, authlog>>

MailNext ==
    \/ \E m \in StoredMails : StoreMail(m)
    \/ \E id \in MailIds \cup DOMAIN maillog : DerefMailById(id)
    \/ \E m \in AppendedMails : MailBoxAppend(m)

MailSpec == MailInit /\ [][MailNext]_vars

----------------------------------------------------------------------------
(* Properties of the mail store.                                           *)

\* C20: a message stored by n >= 1 store_mail calls has a record with
\* ref_count >= 1 until n deref_mail_by_id calls were made, and none after the
\* n-th; no stored record has ref_count < 1.
C20_RefCount ==
    /\ \A i \in 1..Len(mails) : mails[i].ref_count >= 1
    /\ \A id \in DOMAIN maillog :
          IF maillog[id].derefs < maillog[id].stores
          THEN FindMail(id) # 0
          ELSE FindMail(id) = 0

\* The part that holds: a record never has ref_count < 1, and it exists while
\* references are out.
RefCountPositive ==
    /\ \A i \in 1..Len(mails) : mails[i].ref_count >= 1
    /\ \A id \in DOMAIN maillog : maillog[id].derefs < maillog[id].stores => FindMail(id) # 0

----------------------------------------------------------------------------
(* Properties of MailBox.append and the reference count.                   *)

\* The references held on a message: one for every store_mail (a MailBox.append
\* makes one for its row) and one less for every deref_mail_by_id.
Held(id) == Stores(id) - Derefs(id)

RowsNaming(id) == Cardinality({i \in 1..Len(rows) : rows[i].message_id = id})

\* C21: after any sequence of MailBox.append, store_mail and deref_mail_by_id,
\* the ref_count of every stored record equals the number of references held
\* on its message.
C21_RefCountIsHeld ==
    \A i \in 1..Len(mails) : mails[i].ref_count = Held(mails[i].message_id)

\* The part that holds: until a reference is given back, ref_count is the
\* number of references handed out, and every row of a mailbox has one.
RefCountWithoutDeref ==
    \A i \in 1..Len(mails) :
        Derefs(mails[i].message_id) = 0
        => /\ mails[i].ref_count = Stores(mails[i].message_id)
           /\ RowsNaming(mails[i].message_id) <= mails[i].ref_count

RefCountWithoutDeref_Witness ==
    \E i \in 1..Len(mails) : mails[i].ref_count = 2 /\ RowsNaming(mails[i].message_id) = 2

----------------------------------------------------------------------------
(* utils/storage.py: UnQLiteStorage on one collection, and the             *)
(* CommonStorageRecordWrapper on top of it.  A document is the value of    *)
(* each key, Absent for a key it does not have; the collection keeps its   *)
(* documents in the order of their "__id".                                 *)

Keys == {"a", "b"}

KeysOf(d) == {k \in Keys : d[k] # Absent}

\* The documents given to store and update_one, and the queries.
Docs == {[a |-> "x", b |-> "x"], [a |-> "x", b |-> "y"], [a |-> "y", b |-> Absent]}
Queries == {NoDoc, [a |-> "x", b |-> Absent], [a |-> "x", b |-> "y"],
            [a |-> Absent, b |-> "x"]}

\* doc_match: "for k in match: if k in doc: if match[k] == doc[k]: return True",
\* then "return False".
DocMatch(doc, match) ==
    \E k \in KeysOf(match) : k \in KeysOf(doc) /\ match[k] = doc[k]

\* collection.store(record): the next id of the collection.
StoreSync(st, record) ==
    [docs |-> Append(st.docs, [id |-> st.next_id, doc |-> record]),
     next_id |-> st.next_id + 1]

\* find(query): what new_collection.filter(doc_match) hands over, in id order.
Find(st, query) == SelectSeq(st.docs, LAMBDA r : DocMatch(r.doc, query))

\* find_one(query) as a sequence: the first document find yields, or none.
FindOne(st, query) ==
    IF Find(st, query) = <<>> THEN <<>> ELSE <<Find(st, query)[1]>>

\* global_collection.update(doc_id, updated)
CollectionUpdate(st, doc_id, updated) ==
    [st EXCEPT !.docs = [i \in DOMAIN st.docs |->
                            IF st.docs[i].id = doc_id
                            THEN [id |-> doc_id, doc |-> updated]
                            ELSE st.docs[i]]]

\* global_collection.delete(doc_id)
CollectionDelete(st, doc_id) ==
    [st EXCEPT !.docs = SelectSeq(st.docs, LAMBDA r : r.id # doc_id)]

\* UnQLiteStorage.update_one: the collection afterwards.
UpdateOneStore(st, query, updated, upsert) ==
    IF FindOne(st, query) # <<>>
    THEN CollectionUpdate(st, FindOne(st, query)[1].id, updated)
    ELSE IF upsert THEN StoreSync(st, updated) ELSE st

\* UnQLiteStorage.update_one: what it returns, <<>> for None.  Only the upsert
\* branch has a return statement of its own; after "self.global_collection.
\* update(doc_id, updated)" the function runs into "return None".
UpdateOneReturn(st, query, updated, upsert) ==
    IF FindOne(st, query) # <<>> THEN <<>>
    ELSE IF upsert THEN <<updated>> ELSE <<>>

\* CommonStorageRecordWrapper.update_one: "if result: return dict2record(result)",
\* else None; an empty dict is falsy.
WrapperReturn(result) ==
    IF result # <<>> /\ KeysOf(result[1]) # {} THEN result ELSE <<>>

StoreCall(op, query, updated, upsert, result) ==
    [op |-> op, query |-> query, updated |-> updated, upsert |-> upsert,
     before |-> storage.docs, result |-> result]

StoreInit ==
    AgentInit /\ qkind = "memory" /\ probe = NoProbe /\ StoresEmpty /\ ComponentsIdle

\* store(record)
Store(record) ==
    /\ Len(storage.docs) < MaxDocs
    /\ storage.next_id < MaxIds
    /\ storage' = StoreSync(storage, record)
    /\ storecall' = StoreCall("store", NoDoc, record, FALSE, <<record>>)
    /\ UNCHANGED <<yvars, rows, smtp, perf, qvars, hvars, avars, uvars>>

\* find(query), read to its end
FindAll(query) ==
    /\ storecall' = StoreCall("find", query, NoDoc, FALSE,
                              [i \in DOMAIN Find(storage, query) |->
                                  Find(storage, query)[i].doc])
    /\ UNCHANGED <<yvars, storage, rows, smtp, perf, qvars, hvars, avars, uvars>>

\* UnQLiteStorage.update_one(query, updated, upsert)
UpdateOne(query, updated, upsert) ==
    /\ upsert => Len(storage.docs) < MaxDocs /\ storage.next_id < MaxIds
    /\ storage' = UpdateOneStore(storage, query, updated, upsert)
    /\ storecall' = StoreCall("update_one", query, updated, upsert,
                              UpdateOneReturn(storage, query, updated, upsert))
    /\ UNCHANGED <<yvars, rows, smtp, perf, qvars, hvars, avars, uvars>>

\* CommonStorageRecordWrapper.update_one(query, updated): update_one of the
\* common storage without upsert.
WrapperUpdateOne(query, updated) ==
    /\ storage' = UpdateOneStore(storage, query, updated, FALSE)
    /\ storecall' = StoreCall("wrapper.update_one", query, updated, FALSE,
                              WrapperReturn(UpdateOneReturn(storage, query, updated,
                                                            FALSE)))
    /\ UNCHANGED <<yvars, rows, smtp, perf, qvars, hvars, avars, uvars>>

\* remove_one(query)
RemoveOneDoc(query) ==
    /\ storage' = IF FindOne(storage, query) # <<>>
                  THEN CollectionDelete(storage, FindOne(storage, query)[1].id)
                  ELSE storage
    /\ storecall' = StoreCall("remove_one", query, NoDoc, FALSE, <<>>)
    /\ UNCHANGED <<yvars, rows, smtp, perf, qvars, hvars, avars, uvars>>

StoreNext ==
    \/ \E d \in Docs : Store(d)
    \/ \E q \in Queries : FindAll(q)
    \/ \E q \in Queries, d \in Docs, upsert \in BOOLEAN : UpdateOne(q, d, upsert)
    \/ \E q \in Queries, d \in Docs : WrapperUpdateOne(q, d)
    \/ \E q \in Queries : RemoveOneDoc(q)

StoreSpec == StoreInit /\ [][StoreNext]_vars

----------------------------------------------------------------------------
(* Properties of the record store.                                         *)

\* Every key of the query is in the document, with the queried value.
MatchesEveryKey(doc, query) ==
    \A k \in KeysOf(query) : k \in KeysOf(doc) /\ doc[k] = query[k]

EveryKeyMatches(docs, query) ==
    SelectSeq(docs, LAMBDA r : MatchesEveryKey(r.doc, query))

\* C22: find(query) yields exactly the records in which every key of the query
\* is present and equal to the queried value.
C22_FindEveryKey ==
    storecall.op = "find"
    => storecall.result =
           [i \in DOMAIN EveryKeyMatches(storecall.before, storecall.query) |->
               EveryKeyMatches(storecall.before, storecall.query)[i].doc]

\* The part that holds: a query of one key yields exactly the records that
\* have the key with that value, in id order.
FindOneKey ==
    (storecall.op = "find" /\ Cardinality(KeysOf(storecall.query)) = 1)
    => storecall.result =
           [i \in DOMAIN EveryKeyMatches(storecall.before, storecall.query) |->
               EveryKeyMatches(storecall.before, storecall.query)[i].doc]

FindOneKey_Witness ==
    /\ storecall.op = "find"
    /\ Cardinality(KeysOf(storecall.query)) = 1
    /\ Len(storecall.result) = 1
    /\ Len(storecall.before) = 2

UpdateCall == storecall.op \in {"update_one", "wrapper.update_one"} /\ ~storecall.upsert

\* C23: update_one(query, replacement) replaces the first match in place
\* (count, id and the other records unchanged) and returns the replaced
\* record; without a match and without upsert it changes nothing and returns
\* none.
C23_UpdateOneReplaces ==
    UpdateCall
    => LET before == storecall.before
           hits == {i \in DOMAIN before : MatchesEveryKey(before[i].doc, storecall.query)}
       IN IF hits # {}
          THEN LET f == CHOOSE i \in hits : \A j \in hits : i <= j
               IN /\ Len(storage.docs) = Len(before)
                  /\ storage.docs[f] = [id |-> before[f].id, doc |-> storecall.updated]
                  /\ \A i \in DOMAIN before : i # f => storage.docs[i] = before[i]
                  /\ storecall.result \in {<<storecall.updated>>, <<before[f].doc>>}
          ELSE storage.docs = before /\ storecall.result = <<>>

\* The part that holds: the first document that doc_match accepts is replaced
\* in place, and nothing changes when there is none.
UpdateOneInPlace ==
    UpdateCall
    => LET before == storecall.before
           hits == {i \in DOMAIN before : DocMatch(before[i].doc, storecall.query)}
       IN IF hits # {}
          THEN LET f == CHOOSE i \in hits : \A j \in hits : i <= j
               IN /\ Len(storage.docs) = Len(before)
                  /\ storage.docs[f] = [id |-> before[f].id, doc |-> storecall.updated]
                  /\ \A i \in DOMAIN before : i # f => storage.docs[i] = before[i]
          ELSE storage.docs = before /\ storecall.result = <<>>

UpdateOneInPlace_Witness ==
    /\ UpdateCall
    /\ Len(storecall.before) = 2
    /\ storage.docs # storecall.before
    /\ storage.docs[2].id > 1

----------------------------------------------------------------------------
(* mta/smtp.py: the AUTH LOGIN and AUTH PLAIN mechanisms of SMTPDHandler,  *)
(* with Mailboat.handle_smtpd_auth as the auth callback.  server.          *)
(* challenge_auth sends a challenge and returns the client's line, or      *)
(* MISSING when the client aborts with "*".                                *)

\* A byte string that is not valid UTF-8.
InvalidUtf8 == "<ff>"

\* The byte strings of the usernames and passwords clients send.
Fields == {"", "alice", "pw1", "bad", InvalidUtf8}

\* What challenge_auth returns: MISSING, or the line the client sent, which is
\* base64 text (of a payload) or text that base64 does not decode.
MISSING == [kind |-> "MISSING", payload |-> <<>>]
Garbled == [kind |-> "garbled", payload |-> <<>>]
Base64(payload) == [kind |-> "base64", payload |-> payload]

\* standard_b64decode raises binascii.Error on text with incorrect padding.
B64DecodeRaises(word) == word.kind # "base64"
B64Decode(word) == word.payload

\* The lines of an AUTH LOGIN dialog: one byte string each.
LoginWords == {Base64(<<f>>) : f \in Fields} \cup {Garbled, MISSING}

\* The payloads of AUTH PLAIN, as decoded_words.split(b"\0") cuts them.
PlainPayloads ==
    { <<"", "alice", "pw1">>, <<"alice", "pw1">>, <<"", "alice", "">>,
      <<"", "", "pw1">>, <<"alice">>, <<"">>, <<"admin", "alice", "pw1">>,
      <<"", "alice", "bad">>, <<"", "alice", InvalidUtf8>>, <<"", "bob", "pw1">> }

PlainWords == {Base64(p) : p \in PlainPayloads} \cup {Garbled}

\* bytes.decode("utf-8") raises UnicodeDecodeError on bytes that are not UTF-8.
Utf8Valid(bytes) == bytes # InvalidUtf8
Utf8Decode(bytes) == bytes

AuthResult(success, handled) ==
    [outcome |-> "AuthResult", success |-> success, handled |-> handled]

AuthRaised(exception) == [outcome |-> exception, success |-> FALSE, handled |-> FALSE]

MissingResultHandled == AuthResult(FALSE, TRUE)

\* "if username == aiosmtpd.smtp.MISSING: return AuthResult(success=False,
\* handled=False)"
MissingResult == AuthResult(FALSE, FALSE)

\* The AuthRequest handle_smtpd_auth builds.
SmtpAuthRequest(login, password) ==
    AuthRequest(Utf8Decode(login), Utf8Decode(password), NoneStr, <<>>, FALSE)

\* Mailboat.handle_smtpd_auth(server, method, LoginPassword(login, password)):
\* the AuthResult, or the exception that leaves it.
HandleSmtpdAuth(method, login, password) ==
    IF method \in {"login", "plain"}
    THEN IF ~Utf8Valid(login) \/ ~Utf8Valid(password)
         THEN AuthRaised("UnicodeDecodeError")
         ELSE LET result == AuthProviderAuth(SmtpAuthRequest(login, password))
              IN IF result.outcome # "AuthAnswer" THEN AuthRaised(result.outcome)
                 ELSE AuthResult(result.success, result.handled)
    ELSE AuthResult(FALSE, FALSE)

\* The requests handle_smtpd_auth gives to auth_provider.auth.
Consulted(method, login, password) ==
    IF method \in {"login", "plain"} /\ Utf8Valid(login) /\ Utf8Valid(password)
    THEN <<SmtpAuthRequest(login, password)>> ELSE <<>>

\* "return await self.smtp_auth_handler(server, method, LoginPassword(...))"
CallAuthHandler(session, method, login, password) ==
    [session EXCEPT
        !.pc = IF HandleSmtpdAuth(method, login, password).outcome = "AuthResult"
               THEN "done" ELSE "raised",
        !.cb = Append(@, [method |-> method, login |-> login, password |-> password]),
        !.consulted = @ \o Consulted(method, login, password),
        !.result = HandleSmtpdAuth(method, login, password)]

\* auth_PLAIN from the decoding of the words on.
PlainDecoded(session, words) ==
    IF B64DecodeRaises(words)
    THEN [session EXCEPT !.pc = "raised", !.result = AuthRaised("binascii.Error")]
    ELSE LET decoded == B64Decode(words)
             parts == IF decoded[1] = "" THEN Tail(decoded) ELSE decoded
             s == [session EXCEPT !.payload = decoded]
         IN IF Len(parts) # 2
            THEN [s EXCEPT !.pc = "done", !.result = AuthResult(FALSE, TRUE)]
            ELSE CallAuthHandler(s, "plain", parts[1], parts[2])

SmtpInit ==
    AgentInit /\ qkind = "memory" /\ probe = NoProbe /\ StoresEmpty /\ ComponentsIdle

\* auth_LOGIN up to its first challenge.
AuthLogin ==
    /\ smtp.pc = "idle"
    /\ smtp' = [smtp EXCEPT !.pc = "Username:", !.method = "login",
                            !.challenges = <<"Username:">>]
    /\ UNCHANGED <<yvars, rows, storage, storecall, perf, qvars, hvars, avars, uvars>>

\* challenge_auth("Username:") returns.
LoginUsername(username) ==
    /\ smtp.pc = "Username:"
    /\ smtp' = IF username = MISSING
               THEN [smtp EXCEPT !.pc = "done", !.aborted = TRUE,
                                 !.result = MissingResult]
               ELSE IF B64DecodeRaises(username)
               THEN [smtp EXCEPT !.pc = "raised",
                                 !.result = AuthRaised("binascii.Error")]
               ELSE [smtp EXCEPT !.pc = "Password:",
                                 !.responses = Append(@, B64Decode(username)[1]),
                                 !.challenges = Append(@, "Password:")]
    /\ UNCHANGED <<yvars, rows, storage, storecall, perf, qvars, hvars, avars, uvars>>

\* challenge_auth("Password:") returns; with a password the handler is called.
LoginPassword(password) ==
    /\ smtp.pc = "Password:"
    /\ smtp' = IF password = MISSING
               THEN [smtp EXCEPT !.pc = "done", !.aborted = TRUE,
                                 !.result = MissingResult]
               ELSE IF B64DecodeRaises(password)
               THEN [smtp EXCEPT !.pc = "raised",
                                 !.result = AuthRaised("binascii.Error")]
               ELSE CallAuthHandler(
                        [smtp EXCEPT !.responses = Append(@, B64Decode(password)[1])],
                        "login", smtp.responses[1], B64Decode(password)[1])
    /\ UNCHANGED <<yvars, rows, storage, storecall, perf, qvars, hvars, avars, uvars>>

\* auth_PLAIN with the initial response in the command: "if len(args) == 2:
\* words = args[1]".
AuthPlainInitial(words) ==
    /\ smtp.pc = "idle"
    /\ smtp' = PlainDecoded([smtp EXCEPT !.method = "plain"], words)
    /\ UNCHANGED <<yvars, rows, storage, storecall, perf, qvars, hvars, avars, uvars>>

\* auth_PLAIN without it: the empty challenge.
AuthPlain ==
    /\ smtp.pc = "idle"
    /\ smtp' = [smtp EXCEPT !.pc = "plain", !.method = "plain", !.challenges = <<"">>]
    /\ UNCHANGED <<yvars, rows, storage, storecall, perf, qvars, hvars, avars, uvars>>

\* challenge_auth("", encode_to_b64=False) returns.
PlainResponse(words) ==
    /\ smtp.pc = "plain"
    /\ smtp' = IF words = MISSING
               THEN [smtp EXCEPT !.pc = "done", !.aborted = TRUE,
                                 !.result = MissingResult]
               ELSE PlainDecoded(smtp, words)
    /\ UNCHANGED <<yvars, rows, storage, storecall, perf, qvars, hvars, avars, uvars>>

\* The AUTH command is over; the session can take the next one.
AuthOver ==
    /\ smtp.pc \in {"done", "raised"}
    /\ smtp' = NoSession
    /\ UNCHANGED <<yvars, rows, storage, storecall, perf, qvars, hvars, avars, uvars>>

SmtpNext ==
    \/ \E u \in Usernames, p \in Passwords : CreateNewUser(u, p)
    \/ AuthLogin
    \/ \E w \in LoginWords : LoginUsername(w)
    \/ \E w \in LoginWords : LoginPassword(w)
    \/ \E w \in PlainWords : AuthPlainInitial(w)
    \/ AuthPlain
    \/ \E w \in PlainWords \cup {MISSING} : PlainResponse(w)
    \/ AuthOver

SmtpSpec == SmtpInit /\ [][SmtpNext]_vars

----------------------------------------------------------------------------
(* Properties of the SMTP authentication.                                  *)

\* The payload without one leading empty authzid.
WithoutAuthzid(payload) == IF payload[1] = "" THEN Tail(payload) ELSE payload

TwoNonEmptyFields(payload) ==
    /\ Len(WithoutAuthzid(payload)) = 2
    /\ WithoutAuthzid(payload)[1] # ""
    /\ WithoutAuthzid(payload)[2] # ""

\* C24: AUTH PLAIN calls the auth callback (login, password, "plain") only for
\* a payload of exactly two non-empty fields after one tolerated empty authzid;
\* for every other payload it returns handled=true, success=false.
C24_PlainTwoFields ==
    (smtp.method = "plain" /\ smtp.payload # <<>>)
    => /\ smtp.cb # <<>>
          => /\ TwoNonEmptyFields(smtp.payload)
             /\ smtp.cb = <<[method |-> "plain",
                             login |-> WithoutAuthzid(smtp.payload)[1],
                             password |-> WithoutAuthzid(smtp.payload)[2]]>>
       /\ ~TwoNonEmptyFields(smtp.payload) => smtp.result = AuthResult(FALSE, TRUE)

\* The part that holds: the callback is called exactly for the payloads of two
\* fields after one tolerated empty authzid, empty fields included.
PlainTwoFields ==
    (smtp.method = "plain" /\ smtp.payload # <<>>)
    => IF Len(WithoutAuthzid(smtp.payload)) = 2
       THEN smtp.cb = <<[method |-> "plain",
                         login |-> WithoutAuthzid(smtp.payload)[1],
                         password |-> WithoutAuthzid(smtp.payload)[2]]>>
       ELSE smtp.cb = <<>> /\ smtp.result = AuthResult(FALSE, TRUE)

PlainTwoFields_Witness ==
    /\ smtp.method = "plain"
    /\ smtp.payload = <<"", "alice", "pw1">>
    /\ smtp.result = AuthResult(TRUE, TRUE)

\* C25: in an AUTH LOGIN dialog the Username challenge comes before the
\* Password challenge, the callback is called (method "login") only after both
\* responses, and an aborted challenge ends in handled=false, success=false
\* without a call of the callback.
C25_LoginDialog ==
    smtp.method = "login"
    => /\ IsPrefixOf(smtp.challenges, <<"Username:", "Password:">>)
       /\ Len(smtp.responses) <= Len(smtp.challenges)
       /\ smtp.cb # <<>>
          => /\ Len(smtp.challenges) = 2
             /\ Len(smtp.responses) = 2
             /\ smtp.cb = <<[method |-> "login", login |-> smtp.responses[1],
                             password |-> smtp.responses[2]]>>
       /\ smtp.aborted
          => /\ smtp.pc = "done"
             /\ smtp.result = AuthResult(FALSE, FALSE)
             /\ smtp.cb = <<>>

C25_Witness ==
    /\ smtp.method = "login"
    /\ smtp.aborted
    /\ smtp.challenges = <<"Username:", "Password:">>
    /\ smtp.responses = <<"alice">>

\* C26: with username or password bytes that are not UTF-8 the auth callback
\* returns handled=true, success=false; no exception leaves it and the user
\* store is not consulted.
C26_MisencodedRejected ==
    (/\ smtp.cb # <<>>
     /\ ~Utf8Valid(smtp.cb[1].login) \/ ~Utf8Valid(smtp.cb[1].password))
    => /\ smtp.result = AuthResult(FALSE, TRUE)
       /\ smtp.consulted = <<>>

\* The part that holds: nothing is asked of the user store.
MisencodedNotConsulted ==
    (/\ smtp.cb # <<>>
     /\ ~Utf8Valid(smtp.cb[1].login) \/ ~Utf8Valid(smtp.cb[1].password))
    => smtp.consulted = <<>>

----------------------------------------------------------------------------
(* Properties of the user records.                                         *)

\* C27: after any sequence of new_user / create_user calls, repeated usernames
\* included, no two stored UserRecords have the same username.
C27_UniqueUsernames ==
    \A i, j \in 1..Len(userRecords) :
        i # j => userRecords[i].username # userRecords[j].username

\* The part that holds: every user record has a profile of its own.
UniqueProfiles ==
    \A i, j \in 1..Len(userRecords) :
        i # j => userRecords[i].profileid # userRecords[j].profileid

UniqueProfiles_Witness ==
    /\ Len(userRecords) = 2
    /\ userRecords[1].username = userRecords[2].username

----------------------------------------------------------------------------
(* utils/perf.py: the decorators perf_point and async_perf_point on one    *)
(* perf point.  A cell of the list is written as the number of the append  *)
(* that made it.  The function under perf_point is one that does not call *)
(* itself: its wrapper runs from the length test to the append in one      *)
(* piece.  Under async_perf_point the append is a done-callback of the     *)
(* future, and the wrapper returns before it.                              *)

PERF_DATA_NUMBER_LIMIT == 200

\* "if len(perf_list) >= PERF_DATA_NUMBER_LIMIT: perf_list.pop(0)"
PopAtLimit(perf_list) ==
    IF Len(perf_list) >= PERF_DATA_NUMBER_LIMIT THEN Tail(perf_list) ELSE perf_list

\* "perf_list.append(PerfCell(name, t1, t2))"
AppendCell(p, perf_list) ==
    [p EXCEPT !.list = Append(perf_list, p.appended + 1), !.appended = @ + 1]

Max(a, b) == IF a >= b THEN a ELSE b

\* The perf point is made by one of the two decorators.
PerfInit ==
    /\ AgentInit /\ qkind = "memory" /\ probe = NoProbe /\ StoresEmpty
    /\ rows = <<>>
    /\ storage = [docs |-> <<>>, next_id |-> 0]
    /\ storecall = NoStoreCall
    /\ smtp = NoSession
    /\ perf \in {PerfPoint("sync"), PerfPoint("async")}
    /\ remote = NoRemote
    /\ storing = <<>>
    /\ stream = NoStream

\* A call of the function wrapped by perf_point.
SyncCall ==
    /\ perf.kind = "sync"
    /\ perf.started < MaxPerfCalls
    /\ perf' = AppendCell([perf EXCEPT !.started = @ + 1, !.peak = Max(@, 1)],
                          PopAtLimit(perf.list))
    /\ UNCHANGED <<yvars, rows, storage, storecall, smtp, qvars, hvars, avars, uvars>>

\* A call of the function wrapped by async_perf_point: the wrapper returns the
\* future.
AsyncCall ==
    /\ perf.kind = "async"
    /\ perf.started < MaxPerfCalls
    /\ perf.inflight < MaxInFlight
    /\ perf' = [perf EXCEPT !.list = PopAtLimit(@), !.started = @ + 1,
                            !.inflight = @ + 1, !.peak = Max(@, perf.inflight + 1)]
    /\ UNCHANGED <<yvars, rows, storage, storecall, smtp, qvars, hvars, avars, uvars>>

\* perf_callback: the future of a call is done.
PerfCallback ==
    /\ perf.inflight > 0
    /\ perf' = AppendCell([perf EXCEPT !.inflight = @ - 1], perf.list)
    /\ UNCHANGED <<yvars, rows, storage, storecall, smtp, qvars, hvars, avars, uvars>>

PerfNext ==
    \/ SyncCall
    \/ AsyncCall
    \/ PerfCallback

PerfSpec == PerfInit /\ [][PerfNext]_vars

----------------------------------------------------------------------------
(* Properties of the perf data.                                            *)

\* The oldest cell is at the head of the list, and it is the one that leaves.
OldestFirst ==
    /\ \A i \in 1..(Len(perf.list) - 1) : perf.list[i] < perf.list[i + 1]
    /\ perf.list # <<>> => perf.list[Len(perf.list)] = perf.appended

\* C28: the PERF_DATA list of a perf point never holds more than
\* PERF_DATA_NUMBER_LIMIT cells, under perf_point and under async_perf_point,
\* also with several calls in flight; the oldest cell is evicted first.
C28_PerfBound ==
    /\ Len(perf.list) <= PERF_DATA_NUMBER_LIMIT
    /\ OldestFirst

\* The part that holds: the oldest cell leaves first, and the list is within
\* the limit as long as no call was made while another was in flight; in
\* general it exceeds the limit by less than the largest number of calls
\* that were in flight together.
PerfBoundByPeak ==
    /\ OldestFirst
    /\ perf.peak <= 1 => Len(perf.list) <= PERF_DATA_NUMBER_LIMIT
    /\ Len(perf.list) + perf.inflight <= PERF_DATA_NUMBER_LIMIT + Max(perf.peak, 1) - 1

PerfBoundByPeak_Witness ==
    /\ perf.peak = 1
    /\ perf.started > PERF_DATA_NUMBER_LIMIT
    /\ Len(perf.list) = PERF_DATA_NUMBER_LIMIT
    /\ perf.list[1] > 1

----------------------------------------------------------------------------
(* Properties of the order of the envelopes and of the routing.            *)

\* The recipients of a message as its headers list them: To, then Cc, then Bcc.
InHeaderOrder(m) == m["To"] \o m["Cc"] \o m["Bcc"]

DeliveredTo(entries) == [i \in 1..Len(entries) |-> entries[i].env["Delivered-To"]]

\* The queue entries of a call, in the order in which they entered the queue.
PutOf(c) == SelectSeq(putOrder, LAMBDA e : e.call = c)

Dequeued(id) == id <= worker.index

----------------------------------------------------------------------------
(* Properties of the delivery: Bcc, remote delivery, cancellation.         *)

\* C31: an envelope that carried a Bcc header when it was dequeued is handed to
\* its delivery function with one Bcc header, whose value is the envelope's own
\* Delivered-To; an envelope without Bcc is handed over without one.
C31_BccPrivacy ==
    \A id \in DOMAIN tasks :
        IF Has(EntryOf(id).msg, "Bcc")
        THEN tasks[id].msg["Bcc"] = <<EntryOf(id).msg["Delivered-To"]>>
        ELSE ~Has(tasks[id].msg, "Bcc")

C31_Witness ==
    \E id \in DOMAIN tasks :
        /\ EntryOf(id).msg["Bcc"] = <<UserB>>
        /\ EntryOf(id).msg["Delivered-To"] = UserA
        /\ tasks[id].msg["Bcc"] = <<UserA>>
        /\ \E other \in DOMAIN tasks :
              /\ EntryOf(other).msg["Delivered-To"] = UserB
              /\ tasks[other].msg["Bcc"] = <<UserB>>

----------------------------------------------------------------------------
(* TransferAgent.remote_deliver.  The message it gets is the envelope the  *)
(* worker hands over, written here with the headers the SMTP server adds   *)
(* and with its body; aiosmtplib.send returns, raises                      *)
(* SMTPAuthenticationError, or raises something else.                      *)

StrippedHeaders == {"X-Peer", "X-MailFrom", "X-RcptTo", "Delivered-To"}

KeptHeaders == {"Message-Id", "From", "To", "Bcc", "body"}

\* The messages given to remote_deliver: any of the four headers may be there.
RemoteMessages ==
    {[h \in StrippedHeaders \cup KeptHeaders |->
         IF h \in present \/ h \in {"Message-Id", "From", "To", "body"}
         THEN <<h, "value">> ELSE <<>>] :
        present \in SUBSET (StrippedHeaders \cup {"Bcc"})}

StripHeadersKeepsPeer(m) ==
    [h \in DOMAIN m |-> IF h \in StrippedHeaders \ {"X-Peer"} THEN <<>> ELSE m[h]]

\* "for k in ['X-Peer', 'X-MailFrom', 'X-RcptTo', 'Delivered-To']: if k in
\* message: del message[k]"
StripHeaders(m) == [h \in DOMAIN m |-> IF h \in StrippedHeaders THEN <<>> ELSE m[h]]

SendOutcomes == {"sent", "SMTPAuthenticationError", "SMTPConnectError"}

NextStageSkipsStartTls(stage, outcome) ==
    IF stage = "plain" THEN IF outcome = "sent" THEN "done" ELSE "raised"
    ELSE IF outcome \in {"sent", "SMTPAuthenticationError"} THEN "done"
    ELSE "plain"

NextStageAuthFallsThrough(stage, outcome) ==
    IF stage = "plain" THEN IF outcome = "sent" THEN "done" ELSE "raised"
    ELSE IF outcome = "sent" THEN "done"
    ELSE IF stage = "tls" THEN "starttls" ELSE "plain"

\* The try/except ladder: where remote_deliver is after the send of a stage
\* ended.  "except SMTPAuthenticationError: pass" ends the call at the first two
\* stages, the bare "except:" goes to the next stage; nothing catches what the
\* last send raises.
NextStage(stage, outcome) ==
    IF stage = "plain" THEN IF outcome = "sent" THEN "done" ELSE "raised"
    ELSE IF outcome \in {"sent", "SMTPAuthenticationError"} THEN "done"
    ELSE IF stage = "tls" THEN "starttls" ELSE "plain"

RemoteInit ==
    AgentInit /\ qkind = "memory" /\ probe = NoProbe /\ StoresEmpty /\ ComponentsIdle

\* remote_deliver(message) up to its first send: "aiosmtplib.send(message,
\* use_tls=True)".
RemoteDeliver(message) ==
    /\ remote.pc = "idle"
    /\ remote' = [pc |-> "tls", called |-> message, msg |-> StripHeaders(message),
                  attempts |-> <<>>]
    /\ UNCHANGED <<storing, stream, xvars, qvars, hvars, avars, uvars>>

\* The send of the current stage ends; the send of the next stage, if there is
\* one, is made with the same message object.
SendEnds(outcome) ==
    /\ remote.pc \in {"tls", "starttls", "plain"}
    /\ remote' = [remote EXCEPT
                     !.attempts = Append(@, [mode |-> remote.pc, msg |-> remote.msg,
                                             outcome |-> outcome]),
                     !.pc = NextStage(remote.pc, outcome)]
    /\ UNCHANGED <<storing, stream, xvars, qvars, hvars, avars, uvars>>

\* The call is over; the next one can be made.
RemoteOver ==
    /\ remote.pc \in {"done", "raised"}
    /\ remote' = NoRemote
    /\ UNCHANGED <<storing, stream, xvars, qvars, hvars, avars, uvars>>

RemoteNext ==
    \/ \E m \in RemoteMessages : RemoteDeliver(m)
    \/ \E o \in SendOutcomes : SendEnds(o)
    \/ RemoteOver

RemoteSpec == RemoteInit /\ [][RemoteNext]_vars

----------------------------------------------------------------------------
(* Properties of remote_deliver.                                           *)

EscalationOrder == <<"tls", "starttls", "plain">>

Modes(attempts) == [i \in 1..Len(attempts) |-> attempts[i].mode]

\* C32: remote_deliver attempts the modes in the order implicit TLS, STARTTLS,
\* plaintext, each at most once, a later one only after every earlier one
\* failed, and none after one succeeded.
C32_Escalation ==
    /\ IsPrefixOf(Modes(remote.attempts), EscalationOrder)
    /\ \A i \in 1..Len(remote.attempts) :
          i < Len(remote.attempts) => remote.attempts[i].outcome # "sent"
    /\ remote.pc \in {"tls", "starttls", "plain"}
       => /\ \A i \in 1..Len(remote.attempts) : remote.attempts[i].outcome # "sent"
          /\ remote.pc = EscalationOrder[Len(remote.attempts) + 1]

C32_Witness ==
    /\ remote.pc = "done"
    /\ Modes(remote.attempts) = EscalationOrder
    /\ remote.attempts[3].outcome = "sent"

\* C33: after a send that failed with SMTPAuthenticationError remote_deliver
\* makes no further attempt; any other failure of the TLS or the STARTTLS stage
\* leads to the next stage.
C33_AuthTerminal ==
    \A i \in 1..Len(remote.attempts) :
        /\ remote.attempts[i].outcome = "SMTPAuthenticationError"
           => /\ i = Len(remote.attempts)
              /\ remote.pc \in {"done", "raised"}
        /\ (remote.attempts[i].outcome = "SMTPConnectError" /\ i < 3)
           => IF i < Len(remote.attempts)
              THEN remote.attempts[i + 1].mode = EscalationOrder[i + 1]
              ELSE remote.pc = EscalationOrder[i + 1]

C33_Witness ==
    /\ Len(remote.attempts) = 2
    /\ remote.attempts[1].outcome = "SMTPConnectError"
    /\ remote.attempts[2].outcome = "SMTPAuthenticationError"
    /\ remote.pc = "done"

\* C34: at every send attempt the message has none of X-Peer, X-MailFrom,
\* X-RcptTo, Delivered-To, and its other headers and its body are those of the
\* message remote_deliver was called with.
C34_StrippedHeaders ==
    \A i \in 1..Len(remote.attempts) :
        \A h \in DOMAIN remote.called :
            remote.attempts[i].msg[h] =
                (IF h \in {"X-Peer", "X-MailFrom", "X-RcptTo", "Delivered-To"}
                 THEN <<>> ELSE remote.called[h])

C34_Witness ==
    /\ Len(remote.attempts) = 3
    /\ \A h \in StrippedHeaders \cup {"Bcc"} : remote.called[h] # <<>>
    /\ remote.attempts[3].msg["Bcc"] # <<>>

----------------------------------------------------------------------------
(* Properties of destory().                                                *)

\* The ids of the entries that were put and that no get has read.
WaitingIds ==
    IF qkind = "memory"
    THEN {i \in DOMAIN mq.container : i >= mq.next_read_id}
    ELSE {uq.ids[i] : i \in 1..Len(uq.ids)} \cap DOMAIN uq.coll

WaitingEntry(id) == IF qkind = "memory" THEN mq.container[id] ELSE ParseStr(uq.coll[id])

ReadCount == IF qkind = "memory" THEN mq.next_read_id ELSE uq.last_id - Len(uq.ids)

\* C35: after destory() the worker dequeues no further envelope and starts no
\* new delivery, and the envelopes that were in the queue when destory() was
\* called stay in it.
C35_DestroyStopsWorker ==
    /\ [](destroyed => worker.pc \notin {"running", "deadlock"})
    /\ [][destroyed'
          => /\ \A id \in WaitingIds :
                    id \in WaitingIds' /\ WaitingEntry(id)' = WaitingEntry(id)
             /\ ReadCount' = ReadCount
             /\ worker'.index = worker.index
             /\ DOMAIN tasks' = DOMAIN tasks
             /\ \A id \in DOMAIN tasks : tasks'[id].n = tasks[id].n]_vars

C35_Witness ==
    /\ destroyed
    /\ worker.pc = "cancelled"
    /\ \E id \in DOMAIN tasks : tasks[id].st = "running"
    /\ \E id \in WaitingIds : EntryOf(id).call > 0 /\ calls[EntryOf(id).call].st = "returned"

----------------------------------------------------------------------------
(* Properties of the worker's loop.                                        *)

\* The ids of the deliveries started in a step.
StartedIn(before, after) ==
    {id \in DOMAIN after : id \notin DOMAIN before \/ after[id].n > before[id].n}

\* C36: the worker starts deliveries in the order in which queue.get returns
\* the envelopes, one dequeue per turn, and it does not wait for a delivery it
\* started before it dequeues the next envelope.
C36_WorkerOrder ==
    /\ [][/\ ReadCount' \in {ReadCount, ReadCount + 1}
          /\ \A id \in StartedIn(tasks, tasks') :
                /\ StartedIn(tasks, tasks') = {id}
                /\ ReadCount' = ReadCount + 1
                /\ id = GetIndex
                /\ worker'.index = id
                /\ \A earlier \in DOMAIN tasks : earlier < id]_vars
    /\ []((worker.pc = "running" /\ QueueHasUnread) => ENABLED WorkerStep)

C36_Witness ==
    \E first, second \in DOMAIN tasks :
        /\ first < second
        /\ worker.index = second
        /\ tasks[first].st = "running"
        /\ tasks[second].st = "running"

----------------------------------------------------------------------------
(* Properties of the return of handle_message.                             *)

\* C38: when handle_message has returned, every envelope it accepted for the
\* message is in the queue's record of puts: each of its put calls is over.
C38_ReturnAfterPuts ==
    \A c \in 1..Len(calls) :
        calls[c].st = "returned"
        => /\ \A i \in 1..Len(putTasks) : putTasks[i].call # c
           /\ [i \in 1..Len(PutOf(c)) |-> PutOf(c)[i].msg["Delivered-To"]]
                 = Recipients(calls[c].msg, calls[c].internal)

C38_Witness ==
    \E c \in 1..Len(calls) :
        /\ calls[c].st = "returned"
        /\ Len(Recipients(calls[c].msg, calls[c].internal)) = 2
        /\ Len(PutOf(c)) = 2
        /\ worker.index = NoIndex

----------------------------------------------------------------------------
(* Properties of a cancelled MemoryEmailQueue.get.                         *)

\* C40: cancelling a MemoryEmailQueue.get that waits for a message releases
\* lock_getting and leaves next_read_id and the container as they were, so
\* that a later get can take the lock and return the next entry.
C40_CancelledGet ==
    /\ [](qkind = "memory" =>
             \A c \in Consumers :
                 /\ mq.lock_getting = c => cons[c] \in {"locked", "deadlock"}
                 /\ cons[c] = "locked" => mq.lock_getting = c)
    /\ [][\A c \in Consumers :
             (cons[c] = "locked" /\ cons'[c] = "cancelled")
             => /\ mq'.lock_getting = NoOwner
                /\ mq'.next_read_id = mq.next_read_id
                /\ mq'.container = mq.container
                /\ mq'.next_set_id = mq.next_set_id
                /\ got' = got]_vars

\* A get was cancelled while the queue was empty; the entry put since is the
\* next one to read and another consumer holds the lock to return it.
C40_Witness ==
    /\ cons[1] = "cancelled"
    /\ mq.lock_getting = 2
    /\ got = <<>>
    /\ mq.next_read_id = 0
    /\ MemResultTruthy(mq)

----------------------------------------------------------------------------
(* MailStore.store_mail as it runs among other store_mail calls: find_one, *)
(* update_one and store are awaited, and the calls of other tasks run at   *)
(* these suspension points.                                                *)

MailConcInit ==
    AgentInit /\ qkind = "memory" /\ probe = NoProbe /\ StoresEmpty /\ ComponentsIdle

Storing(id) == {k \in 1..Len(storing) : MessageId(storing[k].mail) = id}

\* "record = await self.find_one({'message_id': msg_id})": the call keeps the
\* ref_count of the record it was given, 0 for None.
StoreMailFind(mail) ==
    /\ Len(storing) < MaxStoring
    /\ Stores(MessageId(mail)) + Cardinality(Storing(MessageId(mail))) < MaxStores
    /\ LET i == FindMail(MessageId(mail))
       IN storing' = Append(storing, [mail |-> mail,
                                      found |-> IF i = 0 THEN 0 ELSE mails[i].ref_count])
    /\ UNCHANGED <<remote, stream, xvars, qvars, hvars, avars, uvars>>

\* update_one({"message_id": msg_id}, record): the first document that matches
\* now is replaced by the record; without one nothing is written.
UpdateMail(docs, record) ==
    LET hits == {i \in 1..Len(docs) : docs[i].message_id = record.message_id}
    IN IF hits = {} THEN docs
       ELSE [docs EXCEPT ![CHOOSE i \in hits : \A j \in hits : i <= j] = record]

\* The rest of the call: "record.ref_count += 1; await self.update_one(...)"
\* for a record that was found, "await self.store(new_record)" otherwise.
StoreMailWrite(k) ==
    /\ k \in 1..Len(storing)
    /\ LET mail == storing[k].mail
           record == [message_id |-> MessageId(mail), raw_mail |-> AsString(mail),
                      ref_count |-> storing[k].found + 1]
       IN /\ mails' = IF storing[k].found # 0 THEN UpdateMail(mails, record)
                      ELSE Append(mails, record)
          /\ maillog' = Logged(MessageId(mail), Stores(MessageId(mail)) + 1,
                               Derefs(MessageId(mail)))
    /\ storing' = RemoveOne(storing, k)
    /\ UNCHANGED <<remote, stream, xvars, qvars, hvars, avars, probe, now, userRecords,
                   tokenRecords, authlog>>

MailConcNext ==
    \/ \E m \in StoredMails : StoreMailFind(m)
    \/ \E k \in 1..MaxStoring : StoreMailWrite(k)

MailConcSpec == MailConcInit /\ [][MailConcNext]_vars

RecordsOf(id) == {i \in 1..Len(mails) : mails[i].message_id = id}

\* C37: when the store_mail calls made for a Message-Id are over, the store has
\* exactly one record of that message_id, and its ref_count is the number of
\* these calls, however the calls were interleaved.
C37_ConcurrentStore ==
    \A id \in DOMAIN maillog :
        Storing(id) = {}
        => /\ Cardinality(RecordsOf(id)) = 1
           /\ \A i \in RecordsOf(id) : mails[i].ref_count = maillog[id].stores

----------------------------------------------------------------------------
(* UnQLiteStorage.find.  The generator runs in the event loop; _find runs  *)
(* in a thread of the executor and calls put_nowait of the asyncio.Queue,  *)
(* which is not thread-safe: the steps of Queue.get (test empty(), append  *)
(* a getter future, await it, get_nowait) interleave with the thread's     *)
(* put_nowait (append the item, wake the first getter).                    *)

\* The end marker _find puts after the last document.
EndMarker == 0

\* The documents that match, in the order of the collection, then the marker.
Produced(n) == [i \in 1..n |-> i] \o <<EndMarker>>

FindInit ==
    AgentInit /\ qkind = "memory" /\ probe = NoProbe /\ StoresEmpty /\ ComponentsIdle

\* find(query) up to its first "await queue.get()": the queue is created and
\* _find is submitted to the executor.  The caller takes `wanted` documents
\* and then leaves the iteration (find_one takes one).
FindIterate(n, wanted) ==
    /\ stream.pc = "idle"
    /\ stream' = [NoStream EXCEPT !.pc = "check", !.fut = "pending", !.thread = "queued",
                                  !.todo = Produced(n), !.matching = n, !.wanted = wanted]
    /\ UNCHANGED <<remote, storing, xvars, qvars, hvars, avars, uvars>>

\* A thread of the executor takes _find.
ProducerStart ==
    /\ stream.thread = "queued"
    /\ stream' = [stream EXCEPT !.thread = "running"]
    /\ UNCHANGED <<remote, storing, xvars, qvars, hvars, avars, uvars>>

\* queue.put_nowait(item) in the thread: the item is appended and the first
\* getter, if one is registered, is woken; after the marker _find returns.
ProducerPut ==
    /\ stream.thread = "running"
    /\ stream.todo # <<>>
    /\ stream' = [stream EXCEPT
                     !.queue = Append(@, Head(stream.todo)),
                     !.todo = Tail(@),
                     !.getter = IF @ = "pending" THEN "set" ELSE @,
                     !.thread = IF Len(stream.todo) = 1 THEN "finished" ELSE @,
                     !.fut = IF Len(stream.todo) = 1 /\ @ = "pending" THEN "done" ELSE @]
    /\ UNCHANGED <<remote, storing, xvars, qvars, hvars, avars, uvars>>

\* Queue.get: "while self.empty():" and, for a queue with an item,
\* get_nowait(); then "while el := ...: yield el".
ConsumerCheck ==
    /\ stream.pc = "check"
    /\ IF stream.queue = <<>>
       THEN stream' = [stream EXCEPT !.pc = "append"]
       ELSE LET el == Head(stream.queue)
                out == IF el = EndMarker THEN stream.yielded
                       ELSE Append(stream.yielded, el)
            IN stream' = [stream EXCEPT
                             !.queue = Tail(@),
                             !.yielded = out,
                             !.pc = IF el = EndMarker \/ Len(out) = stream.wanted
                                    THEN "finally" ELSE "check"]
    /\ UNCHANGED <<remote, storing, xvars, qvars, hvars, avars, uvars>>

\* Queue.get: "getter = ...create_future(); self._getters.append(getter)".
ConsumerAppend ==
    /\ stream.pc = "append"
    /\ stream' = [stream EXCEPT !.pc = "await", !.getter = "pending"]
    /\ UNCHANGED <<remote, storing, xvars, qvars, hvars, avars, uvars>>

\* Queue.get: "await getter" is over once the getter has its result.
ConsumerWake ==
    /\ stream.pc = "await"
    /\ stream.getter = "set"
    /\ stream' = [stream EXCEPT !.pc = "check", !.getter = "none"]
    /\ UNCHANGED <<remote, storing, xvars, qvars, hvars, avars, uvars>>

\* "finally: if not fut.done(): fut.cancel()".  A _find that no thread has
\* taken is withdrawn; one that runs is not stopped.
ConsumerFinally ==
    /\ stream.pc = "finally"
    /\ stream' = [stream EXCEPT
                     !.pc = "closed",
                     !.fut = IF @ = "pending" THEN "cancelled" ELSE @,
                     !.thread = IF @ = "queued" THEN "none" ELSE @]
    /\ UNCHANGED <<remote, storing, xvars, qvars, hvars, avars, uvars>>

\* The generator is closed and no thread works for it: the next find.
FindOver ==
    /\ stream.pc = "closed"
    /\ stream.thread \in {"none", "finished"}
    /\ stream' = NoStream
    /\ UNCHANGED <<remote, storing, xvars, qvars, hvars, avars, uvars>>

FindNext ==
    \/ \E n \in 0..MaxMatches, wanted \in 1..(MaxMatches + 1) : FindIterate(n, wanted)
    \/ ProducerStart
    \/ ProducerPut
    \/ ConsumerCheck
    \/ ConsumerAppend
    \/ ConsumerWake
    \/ ConsumerFinally
    \/ FindOver

FindSpec == FindInit /\ [][FindNext]_vars

Abandoned == stream.wanted <= stream.matching

\* C39: iterating find yields every matching record once, in order, and then
\* ends: the consumer is never left waiting for a queue whose producer has put
\* its end marker.  A consumer that leaves early cancels the producer's future.
C39_FindStreams ==
    /\ IsPrefixOf(stream.yielded, [i \in 1..stream.matching |-> i])
    /\ (stream.pc = "closed" /\ ~Abandoned)
       => stream.yielded = [i \in 1..stream.matching |-> i]
    /\ (stream.pc = "closed" /\ Abandoned)
       => /\ Len(stream.yielded) = stream.wanted
          /\ stream.fut \in {"cancelled", "done"}
    /\ stream.thread = "finished"
       => ~(stream.pc = "await" /\ stream.getter = "pending")

\* The part that holds: what find yields is a prefix of the matching records,
\* all of them when the iteration ended at the end marker, and the future is
\* cancelled or done when the generator is closed.
FindYieldsInOrder ==
    /\ IsPrefixOf(stream.yielded, [i \in 1..stream.matching |-> i])
    /\ (stream.pc = "closed" /\ ~Abandoned)
       => stream.yielded = [i \in 1..stream.matching |-> i]
    /\ stream.pc = "closed" => stream.fut \in {"cancelled", "done"}

FindYieldsInOrder_Witness ==
    /\ stream.pc = "closed"
    /\ stream.matching = 2
    /\ stream.yielded = <<1, 2>>
    /\ stream.fut = "done"

====
